---- MODULE Spec2Model ----
(***************************************************************************)
(* A model of gonfig: reflection-driven population of a configuration      *)
(* struct from the process environment (Load, LoadWithDotenv), with the    *)
(* parser registry (RegisterParser, RegisterParserFactory) behind it.      *)
(*                                                                         *)
(* Go strings are sequences of one-character strings, so that splitting,   *)
(* trimming and number parsing are computed and not assumed.  Struct       *)
(* values live in a heap of objects; a pointer is an address, 0 is nil.    *)
(***************************************************************************)
EXTENDS Integers, Sequences, FiniteSets, TLC

VARIABLES env, heap, customParsers, parserFactories, files, res

vars == <<env, heap, customParsers, parserFactories, files, res>>

(***************************************************************************)
(* Bounds of the model.                                                    *)
(***************************************************************************)
\* longest raw string given to the focus key of the environment
MaxLen == 3
\* deepest nesting of loadStruct calls before the Go stack is taken to overflow
MaxDepth == 6
\* longest raw string an overlay file gives its focus key in SpecDotenv
MaxOverlayLen == 1
\* most factories RegisterParserFactory may add in SpecRegistry
MaxFactories == 2

(***************************************************************************)
(* Strings.                                                                *)
(***************************************************************************)
Chars == {"a", "1", ",", " "}

Strings(n) == UNION {[1..k -> Chars] : k \in 0..n}

Str1(c) == <<c>>

\* strings.TrimSpace, on the one white-space character of the alphabet
RECURSIVE TrimLeft(_)
TrimLeft(s) ==
  IF s # <<>> /\ Head(s) = " " THEN TrimLeft(Tail(s)) ELSE s

RECURSIVE TrimRight(_)
TrimRight(s) ==
  IF s # <<>> /\ s[Len(s)] = " " THEN TrimRight(SubSeq(s, 1, Len(s) - 1)) ELSE s

TrimSpace(s) == TrimRight(TrimLeft(s))

\* strings.Split(s, ","): the parts between commas, empty parts kept;
\* Split("") is one empty part.
RECURSIVE SplitFrom(_, _, _)
SplitFrom(s, i, cur) ==
  IF i > Len(s) THEN <<cur>>
  ELSE IF s[i] = "," THEN <<cur>> \o SplitFrom(s, i + 1, <<>>)
  ELSE SplitFrom(s, i + 1, Append(cur, s[i]))

Split(s) == SplitFrom(s, 1, <<>>)

\* strings.HasSuffix(raw, "s")
HasSuffixS(raw) == raw # <<>> /\ raw[Len(raw)] = "s"

DigitVal(c) ==
  CASE c = "0" -> 0 [] c = "1" -> 1 [] c = "2" -> 2 [] c = "3" -> 3
    [] c = "4" -> 4 [] c = "5" -> 5 [] c = "6" -> 6 [] c = "7" -> 7
    [] c = "8" -> 8 [] c = "9" -> 9 [] OTHER -> -1

RECURSIVE DecimalValue(_, _)
DecimalValue(s, acc) ==
  IF s = <<>> THEN acc ELSE DecimalValue(Tail(s), 10 * acc + DigitVal(Head(s)))

AllDigits(s) == s # <<>> /\ \A i \in 1..Len(s) : DigitVal(s[i]) >= 0

(***************************************************************************)
(* Results of a parser: (value, error).                                    *)
(***************************************************************************)
NoErr == [kind |-> "nil", at |-> "", cause |-> ""]

\* gotype is the dynamic type of the value inside the returned interface
Ok(v, gotype) == [ok |-> TRUE, v |-> v, cause |-> "", gotype |-> gotype]

Fail(cause) == [ok |-> FALSE, v |-> 0, cause |-> cause, gotype |-> ""]

\* strconv.ParseInt(raw, 10, bits): signs are outside the alphabet; a value
\* that does not fit the width is a range error.  Only widths below 31 bits
\* can be exceeded by a string of the model.
Pow2(n) == IF n = 7 THEN 128 ELSE IF n = 15 THEN 32768 ELSE 0

ParseInt(raw, bits) ==
  IF ~AllDigits(raw) THEN Fail("strconv.ParseInt: invalid syntax")
  ELSE LET n == DecimalValue(raw, 0) IN
       IF bits \in {8, 16} /\ n >= Pow2(bits - 1)
       THEN Fail("strconv.ParseInt: value out of range")
       ELSE Ok(n, "int64")

\* strconv.ParseBool
BoolTrue == {<<"1">>, <<"t">>, <<"T">>, <<"t", "r", "u", "e">>,
             <<"T", "R", "U", "E">>, <<"T", "r", "u", "e">>}

BoolFalse == {<<"0">>, <<"f">>, <<"F">>, <<"f", "a", "l", "s", "e">>,
              <<"F", "A", "L", "S", "E">>, <<"F", "a", "l", "s", "e">>}

ParseBool(raw) ==
  IF raw \in BoolTrue THEN Ok(TRUE, "bool")
  ELSE IF raw \in BoolFalse THEN Ok(FALSE, "bool")
  ELSE Fail("strconv.ParseBool: invalid syntax")

\* strconv.ParseFloat on the alphabet of the model: digit strings only
ParseFloat(raw) ==
  IF AllDigits(raw) THEN Ok(DecimalValue(raw, 0), "float64")
  ELSE Fail("strconv.ParseFloat: invalid syntax")

\* time.ParseDuration on the alphabet of the model: no unit can be written,
\* so every string is rejected ("missing unit" or "invalid duration").
ParseDuration(raw) == Fail("time: invalid duration")

IntKinds == {"int", "int8", "int16", "int32", "int64"}

FloatKinds == {"float32", "float64"}

parseScalar(raw, kind, bits) ==
  CASE kind = "string" -> Ok(raw, "string")
    [] kind = "bool" -> ParseBool(raw)
    [] kind \in IntKinds ->
         IF kind = "int64" /\ HasSuffixS(raw) THEN ParseDuration(raw)
         ELSE ParseInt(raw, bits)
    [] kind \in FloatKinds -> ParseFloat(raw)
    [] OTHER -> Fail("unsupported scalar kind")

(***************************************************************************)
(* Types (reflect.Type).  A type is named by its Go type string; Kind,     *)
(* Elem, Bits and StructFields read its declaration, and TextUnmarshalers  *)
(* are the types whose pointer implements encoding.TextUnmarshaler.        *)
(***************************************************************************)
\* a struct field with its tags; an absent tag reads as the empty string
Field(name, envTag, secretTag, def, required, type) ==
  [name |-> name, env |-> envTag, secret |-> secretTag, def |-> def,
   required |-> required, json |-> "", yaml |-> "", type |-> type,
   exported |-> TRUE]

Unexported(name, type) ==
  [name |-> name, env |-> "", secret |-> "", def |-> <<>>,
   required |-> "", json |-> "", yaml |-> "", type |-> type,
   exported |-> FALSE]

BasicFields ==
  << Field("Name", "NAME", "", <<"a">>, "", "string"),
     Unexported("hidden", "string"),
     Field("Port", "PORT", "", <<"1">>, "", "int8"),
     Field("Token", "", "TOKEN", <<>>, "true", "string") >>

ListFields ==
  << Field("Tags", "TAGS", "", <<"a", ",", "1">>, "", "[]string"),
     Field("Nums", "NUMS", "", <<>>, "", "[]int"),
     Field("Last", "LAST", "", <<"a">>, "", "string") >>

ReqFields ==
  << Field("Key", "KEY", "", <<"a">>, "true", "string"),
     Field("Must", "", "", <<>>, "true", "int"),
     Field("Opt", "OPT", "", <<"1">>, "", "string") >>

DBFields == << Field("Host", "HOST", "", <<"a">>, "", "string") >>

InnerFields == << Field("Id", "ID", "", <<"1">>, "", "int") >>

CacheFields ==
  << Field("Addr", "ADDR", "", <<>>, "true", "string"),
     Field("Inner", "", "", <<>>, "", "*Inner") >>

NestedFields ==
  << Field("App", "APP", "", <<"a">>, "", "string"),
     Field("DB", "", "", <<>>, "", "DB"),
     Field("Cache", "", "", <<>>, "", "*Cache") >>

TypedFields ==
  << Field("At", "AT", "", <<>>, "", "time.Time"),
     Field("Lvl", "LVL", "", <<"a">>, "", "Level"),
     Field("Count", "COUNT", "", <<>>, "", "uint") >>

\* a schema of secrets: a string, a list of strings, and other types
SecretsFields ==
  << Field("Key", "", "API_KEY", <<>>, "", "string"),
     Field("Keys", "", "KEYS", <<>>, "", "[]string"),
     Field("Pin", "", "PIN", <<>>, "", "int"),
     Field("Codes", "", "CODES", <<>>, "", "[]int"),
     Field("Cert", "", "CERT", <<>>, "", "DB"),
     Field("Lvl", "", "LVL", <<>>, "", "Level") >>

\* a schema of locators: by value, by pointer, in lists, and one secret
LinksFields ==
  << Field("Site", "SITE", "", <<>>, "", "url.URL"),
     Field("Back", "BACK", "", <<>>, "", "*url.URL"),
     Field("Mirrors", "MIRRORS", "", <<>>, "", "[]url.URL"),
     Field("Peers", "PEERS", "", <<>>, "", "[]*url.URL"),
     Field("Vault", "", "VAULT", <<>>, "", "url.URL") >>

\* type Node struct { Val int; Next *Node }
NodeFields ==
  << Field("Val", "VAL", "", <<>>, "", "int"),
     Field("Next", "", "", <<>>, "", "*Node") >>

\* type Team struct { Members []Basic }
TeamFields == << Field("Members", "", "", <<>>, "", "[]Basic") >>

StructTypes ==
  {"Basic", "List", "Req", "Nested", "Typed", "DB", "Cache", "Inner", "time.Time",
   "Secrets", "Links", "Node", "url.URL", "Team"}

SliceTypes == {"[]string", "[]int", "[]url.URL", "[]*url.URL", "[]Basic"}

PtrTypes == {"*Cache", "*Inner", "*time.Time", "*url.URL", "*Node"}

\* type Level string; type CustomType string
NamedStrings == {"Level", "CustomType"}

\* t.Kind(); a predeclared type is its own kind
Kind(t) ==
  CASE t \in StructTypes -> "struct"
    [] t \in SliceTypes -> "slice"
    [] t \in PtrTypes -> "ptr"
    [] t \in NamedStrings -> "string"
    [] t = "time.Duration" -> "int64"
    [] OTHER -> t

\* t.Elem() of a slice or pointer type
Elem(t) ==
  CASE t = "[]string" -> "string"
    [] t = "[]int" -> "int"
    [] t = "*Cache" -> "Cache"
    [] t = "*Inner" -> "Inner"
    [] t = "*time.Time" -> "time.Time"
    [] t = "[]url.URL" -> "url.URL"
    [] t = "[]*url.URL" -> "*url.URL"
    [] t = "*url.URL" -> "url.URL"
    [] t = "*Node" -> "Node"
    [] t = "[]Basic" -> "Basic"
    [] OTHER -> ""

\* t.Bits() of a numeric type
Bits(t) ==
  CASE Kind(t) = "int8" -> 8
    [] Kind(t) = "int16" -> 16
    [] Kind(t) \in {"int32", "float32"} -> 32
    [] OTHER -> 64

\* the types T with func (*T) UnmarshalText([]byte) error
TextUnmarshalers == {"Level", "time.Time"}

\* the declared fields of a struct type (none for a type kept opaque)
StructFields(t) ==
  CASE t = "Basic" -> BasicFields
    [] t = "List" -> ListFields
    [] t = "Req" -> ReqFields
    [] t = "Nested" -> NestedFields
    [] t = "Typed" -> TypedFields
    [] t = "DB" -> DBFields
    [] t = "Cache" -> CacheFields
    [] t = "Inner" -> InnerFields
    [] t = "Secrets" -> SecretsFields
    [] t = "Links" -> LinksFields
    [] t = "Node" -> NodeFields
    [] t = "Team" -> TeamFields
    [] OTHER -> <<>>

NumField(t) == Len(StructFields(t))

\* the types whose values the model keeps opaque (parsed as a unit)
OpaqueStructs == {"time.Time", "url.URL"}

(***************************************************************************)
(* Values.  string: a character sequence; integers and booleans as         *)
(* themselves; a slice: nil or a sequence of elements; a pointer: a heap   *)
(* address, 0 for nil; a struct: the sequence of its field values.         *)
(***************************************************************************)
NilSlice == [isnil |-> TRUE, elems |-> <<>>]

MakeSlice(elems) == [isnil |-> FALSE, elems |-> elems]

ZeroTime == [set |-> FALSE, unix |-> 0]

\* time.Unix(n, 0)
UnixTime(n) == [set |-> TRUE, unix |-> n]

\* url.Userinfo: (*Userinfo)(nil) is NoUser
NoUser == [set |-> FALSE, name |-> <<>>, pwset |-> FALSE, pw |-> <<>>]

\* url.UserPassword(name, pw)
UserPassword(name, pw) == [set |-> TRUE, name |-> name, pwset |-> TRUE, pw |-> pw]

\* url.URL{Scheme, User, Host, Path, RawQuery}
URL(scheme, user, host, path, query) ==
  [scheme |-> scheme, user |-> user, host |-> host, path |-> path, query |-> query]

ZeroURL == URL(<<>>, NoUser, <<>>, <<>>, <<>>)

RECURSIVE ZeroValue(_)

\* the zero value of a struct with the given fields
ZeroStruct(fields) == [i \in 1..Len(fields) |-> ZeroValue(fields[i].type)]

ZeroOfKind(kind, t) ==
  CASE kind = "string" -> <<>>
    [] kind = "bool" -> FALSE
    [] kind = "slice" -> NilSlice
    [] kind = "ptr" -> 0
    [] kind = "struct" ->
         IF t = "time.Time" THEN ZeroTime
         ELSE IF t = "url.URL" THEN ZeroURL
         ELSE ZeroStruct(StructFields(t))
    [] OTHER -> 0

\* reflect.Zero(t)
ZeroValue(t) == ZeroOfKind(Kind(t), t)

\* reflect.Value.IsZero
IsZero(v, t) == v = ZeroValue(t)

(***************************************************************************)
(* The parser registry.  A parser function is named; Run applies it.       *)
(***************************************************************************)
\* the explicit parsers init() registers, for the types of the model
BuiltinParsers ==
  ("time.Time" :> "time") @@ ("*time.Time" :> "timePtr")
  @@ ("time.Duration" :> "duration")
  @@ ("url.URL" :> "url") @@ ("*url.URL" :> "urlPtr")

\* parsers a caller may pass to RegisterParser
UserParsers == {"custom", "reject"}

\* factories a caller may pass to RegisterParserFactory
UserFactories == {"facString", "facNil"}

CustomPrefix == <<"c", "u", "s", "t", "o", "m", "_">>

FacPrefix == <<"f", "_">>

\* the registered parser of time.Time: RFC3339 cannot be written in the
\* alphabet, so the Unix-seconds fallback decides
ParseTime(raw) ==
  LET r == ParseInt(raw, 64) IN
  IF r.ok THEN Ok(UnixTime(r.v), "time.Time") ELSE Fail("invalid time")

\* url.Parse(raw): a string of the alphabet has no scheme, authority or
\* query and no escapes, so it is a relative path and parses as one
ParseURL(raw) == Ok(URL(<<>>, NoUser, <<>>, raw, <<>>), "url.URL")

\* UnmarshalText of the capability types of the model
UnmarshalText(target, raw) ==
  CASE target = "time.Time" -> Fail("failed to unmarshal text")
    [] target = "Level" ->
         IF raw = <<"a">> THEN Ok(raw, "Level") ELSE Fail("failed to unmarshal text")
    [] OTHER -> Fail("failed to unmarshal text")

\* a pointer produced by a parser: the pointed-to value, boxed
Box(r) == IF r.ok THEN Ok([box |-> r.v], "*" \o r.gotype) ELSE r

\* parser(raw) for a parser function
Run(parser, raw) ==
  CASE parser.fn = "time" -> ParseTime(raw)
    [] parser.fn = "timePtr" -> Box(ParseTime(raw))
    [] parser.fn = "duration" -> ParseDuration(raw)
    [] parser.fn = "url" -> ParseURL(raw)
    [] parser.fn = "urlPtr" -> Box(ParseURL(raw))
    [] parser.fn = "custom" -> Ok(CustomPrefix \o raw, "CustomType")
    [] parser.fn = "reject" -> Fail("rejected")
    [] parser.fn = "unmarshalText" ->
         IF parser.ptr THEN Box(UnmarshalText(parser.target, raw))
         ELSE UnmarshalText(parser.target, raw)
    [] parser.fn = "facString" -> Ok(FacPrefix \o raw, "string")
    [] OTHER -> Fail("no such parser")

Parser(fn) == [fn |-> fn, target |-> "", ptr |-> FALSE]

NilParser == Parser("nil")

\* factory(t): the parser the factory makes for t, or nil
Factory(f, t) ==
  CASE f = "text" ->
         IF Kind(t) = "ptr"
         THEN IF Elem(t) \in TextUnmarshalers
              THEN [fn |-> "unmarshalText", target |-> Elem(t), ptr |-> TRUE]
              ELSE NilParser
         ELSE IF t \in TextUnmarshalers
              THEN [fn |-> "unmarshalText", target |-> t, ptr |-> FALSE]
              ELSE NilParser
    [] f = "facString" ->
         IF Kind(t) = "string" THEN Parser("facString") ELSE NilParser
    [] f = "facStruct" ->
         IF Kind(t) = "struct" THEN Parser("reject") ELSE NilParser
    [] OTHER -> NilParser

\* the loop over parserFactories from index i: the parser of the first
\* factory that makes one for t, or nil; asked lists the factories the
\* loop has called, in the order of the calls
RECURSIVE FirstFactory(_, _, _)

\* if parser := factory(t); parser != nil { ... }
OrNextFactory(parser, factories, t, i) ==
  IF parser # NilParser THEN [parser |-> parser, asked |-> <<factories[i]>>]
  ELSE LET rest == FirstFactory(factories, t, i + 1)
       IN  [parser |-> rest.parser, asked |-> <<factories[i]>> \o rest.asked]

FirstFactory(factories, t, i) ==
  IF i > Len(factories) THEN [parser |-> NilParser, asked |-> <<>>]
  ELSE OrNextFactory(Factory(factories[i], t), factories, t, i)

\* mutant: the factories are called although an explicit parser exists,
\* and the explicit parser answers all the same
parseWithRegistryAskingAnyway(R, raw, t, kind, bits) ==
  LET made == FirstFactory(R.factories, t, 1) IN
  IF t \in DOMAIN R.parsers
  THEN [out |-> Run(Parser(R.parsers[t]), raw), asked |-> made.asked]
  ELSE [out |-> IF made.parser # NilParser THEN Run(made.parser, raw)
                ELSE parseScalar(raw, kind, bits),
        asked |-> made.asked]

\* parseWithRegistry with the factories it called on the way: none when
\* customParsers holds t (the function returns before the loop); else
\* return parser(raw) for the parser a factory made, else parseScalar
parseWithRegistryAsking(R, raw, t, kind, bits) ==
  IF t \in DOMAIN R.parsers
  THEN [out |-> Run(Parser(R.parsers[t]), raw), asked |-> <<>>]
  ELSE LET made == FirstFactory(R.factories, t, 1)
       IN  [out |-> IF made.parser # NilParser THEN Run(made.parser, raw)
                    ELSE parseScalar(raw, kind, bits),
            asked |-> made.asked]

\* the registry seen by a call: R.parsers, R.factories (and R.env)
parseWithRegistry(R, raw, t, kind, bits) ==
  parseWithRegistryAsking(R, raw, t, kind, bits).out

isCustomParsedType(R, t) ==
  IF t \in DOMAIN R.parsers THEN TRUE
  ELSE IF Kind(t) = "struct" THEN t \in TextUnmarshalers
  ELSE FirstFactory(R.factories, t, 1).parser # NilParser

getBits(t) ==
  IF Kind(t) \in IntKinds \cup FloatKinds THEN Bits(t) ELSE 0

(***************************************************************************)
(* reflect.Value.Set and Convert.                                          *)
(***************************************************************************)
NumericKinds == IntKinds \cup FloatKinds \cup {"uint"}

\* Value.Set panics unless the dynamic type is the field's type
AssignableTo(from, to) == from = to

\* Value.Convert panics unless Go allows the conversion
ConvertibleKinds(from, to) ==
  \/ from \in NumericKinds /\ to \in NumericKinds
  \/ from = "string" /\ to = "string"

ConvertibleTo(from, to) == from = to \/ ConvertibleKinds(Kind(from), Kind(to))

\* an integer converted to a narrower width wraps around
Wrap(n, bits) == ((n + Pow2(bits - 1)) % (2 * Pow2(bits - 1))) - Pow2(bits - 1)

Convert(v, from, to) ==
  IF from # to /\ Kind(to) = "int8" THEN Wrap(v, 8) ELSE v

(***************************************************************************)
(* The heap: a sequence of struct objects [type, val].  A field is named   *)
(* by the address of its object and the path of field indices inside it.   *)
(***************************************************************************)
RECURSIVE GetAt(_, _)
GetAt(v, path) ==
  IF path = <<>> THEN v ELSE GetAt(v[Head(path)], Tail(path))

RECURSIVE SetAt(_, _, _)
SetAt(v, path, x) ==
  IF path = <<>> THEN x
  ELSE [v EXCEPT ![Head(path)] = SetAt(v[Head(path)], Tail(path), x)]

FieldValue(hp, a, path) == GetAt(hp[a].val, path)

\* fv.Set(x): the write is logged
SetField(st, a, path, x) ==
  [st EXCEPT !.heap = [st.heap EXCEPT ![a].val = SetAt(st.heap[a].val, path, x)],
             !.log = Append(st.log, [a |-> a, p |-> path])]

\* reflect.New(t): a fresh zero object
New(st, t) ==
  [st EXCEPT !.heap = Append(st.heap, [type |-> t, val |-> ZeroValue(t)])]

\* the message of an error: fmt.Errorf("required env %q missing", key) and
\* fmt.Errorf("field %s: %w", sf.Name, err), as the fragments they join
Quote(x) == <<"\"", x, "\"">>

ErrorText(err) ==
  CASE err.kind = "nil" -> <<>>
    [] err.kind = "required" -> <<"required env ">> \o Quote(err.at) \o <<" missing">>
    [] err.kind = "field" -> <<"field ", err.at, ": ", err.cause>>
    [] OTHER -> <<err.cause>>

WithErr(st, kind, at, cause) ==
  [st EXCEPT !.err = [kind |-> kind, at |-> at, cause |-> cause]]

(***************************************************************************)
(* The struct walker.  A walk state st is [heap, err, log]; R is what the  *)
(* call reads: the environment and the registry.                           *)
(***************************************************************************)
\* the key of a leaf field: env tag, else secret tag, else the field name
FieldKey(sf) ==
  IF sf.env # "" THEN sf.env ELSE IF sf.secret # "" THEN sf.secret ELSE sf.name

\* the loop over the comma-separated parts of a slice field
RECURSIVE parseParts(_, _, _, _, _)

\* one parsed part: the error ends the loop, else the value is appended
\* (as it is for an explicit parser, converted to the element type otherwise)
appendParsed(R, parts, i, elemType, acc, r) ==
  IF ~r.ok THEN [kind |-> "field", cause |-> r.cause, elems |-> acc]
  ELSE IF elemType \in DOMAIN R.parsers
  THEN IF AssignableTo(r.gotype, elemType)
       THEN parseParts(R, parts, i + 1, elemType, Append(acc, r.v))
       ELSE [kind |-> "panic", cause |-> "reflect.Append", elems |-> acc]
  ELSE IF ConvertibleTo(r.gotype, elemType)
       THEN parseParts(R, parts, i + 1, elemType,
                       Append(acc, Convert(r.v, r.gotype, elemType)))
       ELSE [kind |-> "panic", cause |-> "reflect.Convert", elems |-> acc]

\* part = strings.TrimSpace(part); if part == "" { continue }
parsePart(R, parts, i, elemType, acc, part) ==
  IF part = <<>> THEN parseParts(R, parts, i + 1, elemType, acc)
  ELSE appendParsed(R, parts, i, elemType, acc,
                    parseWithRegistry(R, part, elemType, Kind(elemType),
                                      getBits(elemType)))

parseParts(R, parts, i, elemType, acc) ==
  IF i > Len(parts) THEN [kind |-> "nil", cause |-> "", elems |-> acc]
  ELSE parsePart(R, parts, i, elemType, acc, TrimSpace(parts[i]))

\* mutant: a value the field already holds wins over the environment
resolveRawKeepsNonZero(R, sf, fv) ==
  LET key == FieldKey(sf) IN
  IF ~IsZero(fv, sf.type) THEN [skip |-> TRUE, raw |-> <<>>]
  ELSE IF key \in DOMAIN R.env THEN [skip |-> FALSE, raw |-> R.env[key]]
  ELSE [skip |-> FALSE, raw |-> sf.def]

\* mutant: the default tag is applied whatever the field holds
resolveRawDefaultClobbers(R, sf, fv) ==
  LET key == FieldKey(sf) IN
  IF key \in DOMAIN R.env THEN [skip |-> FALSE, raw |-> R.env[key]]
  ELSE [skip |-> FALSE, raw |-> sf.def]

\* os.LookupEnv(key), then the default tag only for a field that holds its
\* zero value: skip says the field is left alone
resolveRaw(R, sf, fv) ==
  LET key == FieldKey(sf) IN
  IF key \in DOMAIN R.env THEN [skip |-> FALSE, raw |-> R.env[key]]
  ELSE IF IsZero(fv, sf.type) THEN [skip |-> FALSE, raw |-> sf.def]
  ELSE [skip |-> TRUE, raw |-> <<>>]

\* mutant: the required tag is not looked at
requiredMissingIgnored(raw, sf) == FALSE

\* raw == "" && required == "true"
requiredMissing(raw, sf) == raw = <<>> /\ sf.required = "true"

\* mutant: the elements parsed before the one that fails are stored
setSliceStoresPrefix(st, a, fp, sf, ps) ==
  IF ps.kind # "nil"
  THEN WithErr(SetField(st, a, fp, MakeSlice(ps.elems)), ps.kind, sf.name, ps.cause)
  ELSE SetField(st, a, fp, MakeSlice(ps.elems))

\* after the loop: the error is returned, else fv.Set(slice)
setSlice(st, a, fp, sf, ps) ==
  IF ps.kind # "nil" THEN WithErr(st, ps.kind, sf.name, ps.cause)
  ELSE SetField(st, a, fp, MakeSlice(ps.elems))

\* mutant: the parsed elements are appended to the ones the field holds
loadSliceAppends(R, st, a, fp, sf, raw) ==
  IF raw = <<>> THEN SetField(st, a, fp, MakeSlice(<<>>))
  ELSE setSlice(st, a, fp, sf,
                parseParts(R, Split(raw), 1, Elem(sf.type),
                           FieldValue(st.heap, a, fp).elems))

\* the slice branch: every non-empty trimmed part is parsed and appended
\* to a fresh slice, and the field is set once, after the loop
loadSlice(R, st, a, fp, sf, raw) ==
  IF raw = <<>> THEN SetField(st, a, fp, MakeSlice(<<>>))
  ELSE setSlice(st, a, fp, sf, parseParts(R, Split(raw), 1, Elem(sf.type), <<>>))

\* mutant: a field whose value does not parse is reset to its zero value
setScalarClearsOnError(R, st, a, fp, sf, r) ==
  IF ~r.ok
  THEN WithErr(SetField(st, a, fp, ZeroValue(sf.type)), "field", sf.name, r.cause)
  ELSE IF sf.type \in DOMAIN R.parsers
  THEN IF AssignableTo(r.gotype, sf.type) THEN SetField(st, a, fp, r.v)
       ELSE WithErr(st, "panic", sf.name, "reflect.Set")
  ELSE IF ConvertibleTo(r.gotype, sf.type)
       THEN SetField(st, a, fp, Convert(r.v, r.gotype, sf.type))
       ELSE WithErr(st, "panic", sf.name, "reflect.Convert")

\* the parsed value is Set (explicit parser) or converted and Set
setScalar(R, st, a, fp, sf, r) ==
  IF ~r.ok THEN WithErr(st, "field", sf.name, r.cause)
  ELSE IF sf.type \in DOMAIN R.parsers
  THEN IF AssignableTo(r.gotype, sf.type) THEN SetField(st, a, fp, r.v)
       ELSE WithErr(st, "panic", sf.name, "reflect.Set")
  ELSE IF ConvertibleTo(r.gotype, sf.type)
       THEN SetField(st, a, fp, Convert(r.v, r.gotype, sf.type))
       ELSE WithErr(st, "panic", sf.name, "reflect.Convert")

\* the scalar branch: parse, then Set
loadScalar(R, st, a, fp, sf, raw) ==
  setScalar(R, st, a, fp, sf,
            parseWithRegistry(R, raw, sf.type, Kind(sf.type), getBits(sf.type)))

\* a leaf field whose raw string is known: required, empty, slice or scalar
loadRaw(R, st, a, fp, sf, raw) ==
  IF requiredMissing(raw, sf)
  THEN WithErr(st, "required", FieldKey(sf), "")
  ELSE IF raw = <<>> THEN st
  ELSE IF Kind(sf.type) = "slice" /\ ~isCustomParsedType(R, sf.type)
  THEN loadSlice(R, st, a, fp, sf, raw)
  ELSE loadScalar(R, st, a, fp, sf, raw)

loadResolved(R, st, a, fp, sf, rr) ==
  IF rr.skip THEN st ELSE loadRaw(R, st, a, fp, sf, rr.raw)

\* a leaf field: lookup, default, required, parse, assign
loadLeaf(R, st, a, fp, sf) ==
  loadResolved(R, st, a, fp, sf, resolveRaw(R, sf, FieldValue(st.heap, a, fp)))

RECURSIVE loadStruct(_, _, _, _, _, _)
RECURSIVE loadFields(_, _, _, _, _, _, _)

\* mutant: a fresh struct is allocated even when the pointer is set
allocAlways(st, a, fp, ft) ==
  SetField(New(st, Elem(ft)), a, fp, Len(st.heap) + 1)

\* if fv.IsNil() { fv.Set(reflect.New(fv.Type().Elem())) }
allocIfNil(st, a, fp, ft) ==
  IF FieldValue(st.heap, a, fp) = 0
  THEN SetField(New(st, Elem(ft)), a, fp, Len(st.heap) + 1)
  ELSE st

\* loadStruct(fv.Elem()) for the struct a pointer field points at
loadPointee(R, st, a, fp, ft, d) ==
  loadStruct(R, st, FieldValue(st.heap, a, fp), <<>>, Elem(ft), d + 1)

\* one iteration of the loop of loadStruct, for the field sf at (a, fp)
loadField(R, st, a, fp, sf, d) ==
  IF ~sf.exported THEN st
  ELSE IF Kind(sf.type) = "struct" /\ ~isCustomParsedType(R, sf.type)
  THEN loadStruct(R, st, a, fp, sf.type, d + 1)
  ELSE IF /\ Kind(sf.type) = "ptr"
          /\ Kind(Elem(sf.type)) = "struct"
          /\ ~isCustomParsedType(R, sf.type)
  THEN loadPointee(R, allocIfNil(st, a, fp, sf.type), a, fp, sf.type, d)
  ELSE loadLeaf(R, st, a, fp, sf)

\* the loop of loadStruct from field i on; an error returns at once
loadFields(R, st, a, path, t, i, d) ==
  IF i > NumField(t) \/ st.err # NoErr THEN st
  ELSE loadFields(R, loadField(R, st, a, Append(path, i), StructFields(t)[i], d),
                  a, path, t, i + 1, d)

\* deeper than MaxDepth the goroutine stack is taken to be exhausted
loadStruct(R, st, a, path, t, d) ==
  IF d > MaxDepth THEN WithErr(st, "overflow", "", "stack overflow")
  ELSE loadFields(R, st, a, path, t, 1, d)

\* the walk of the struct at address a of heap hp, from a clean walk state
loadAt(R, hp, a) ==
  [walk |-> loadStruct(R, [heap |-> hp, err |-> NoErr, log |-> <<>>], a, <<>>,
                       hp[a].type, 0),
   ret |-> a]

\* Load(config): config is a pointer to the struct at addr (form "ptr"), the
\* struct at addr passed by value (form "value"), or no struct (form "other").
\* The result is the walk state with ret, the address of the returned struct.
Load(R, hp, config) ==
  IF config.form = "ptr" THEN loadAt(R, hp, config.addr)
  ELSE IF config.form = "value"
  THEN loadAt(R, Append(hp, hp[config.addr]), Len(hp) + 1)
  ELSE [walk |-> [heap |-> hp, log |-> <<>>,
                  err |-> [kind |-> "config", at |-> "",
                           cause |-> "config must be struct or pointer to struct"]],
        ret |-> 0]

(***************************************************************************)
(* godotenv.Load(path) of the overlay library: a file that cannot be read  *)
(* changes nothing; otherwise every key of the file that the environment   *)
(* does not hold yet is set.  fs maps the readable paths to their pairs.   *)
(***************************************************************************)
godotenvLoad(e, fs, path) ==
  IF path \notin DOMAIN fs THEN e
  ELSE [k \in DOMAIN e \cup DOMAIN fs[path] |->
          IF k \in DOMAIN e THEN e[k] ELSE fs[path][k]]

\* the path LoadWithDotenv gives to godotenv.Load
DotenvPath(paths) == IF Len(paths) > 0 THEN paths[1] ELSE ".env"

\* the environment once LoadWithDotenv has loaded its overlay
DotenvEnv(e, fs, paths) == godotenvLoad(e, fs, DotenvPath(paths))

\* mutant: the overlay file is not loaded
LoadWithDotenvSkipsOverlay(R, fs, hp, config, paths) ==
  [out |-> Load(R, hp, config), env |-> R.env]

\* mutant: the environment is put back as it was when the call returns
LoadWithDotenvRestoresEnv(R, fs, hp, config, paths) ==
  [out |-> Load([R EXCEPT !.env = DotenvEnv(R.env, fs, paths)], hp, config),
   env |-> R.env]

\* LoadWithDotenv(config, paths...): the overlay is loaded into the process
\* environment, then Load runs; env is the environment the call leaves
LoadWithDotenv(R, fs, hp, config, paths) ==
  [out |-> Load([R EXCEPT !.env = DotenvEnv(R.env, fs, paths)], hp, config),
   env |-> DotenvEnv(R.env, fs, paths)]

(***************************************************************************)
(* The secret renderer.  A Go string is its bytes: each character of the   *)
(* alphabet is one byte, and the two bytes C3 A9 encode the character é.   *)
(* The JSON document PrettyString returns is kept as its syntax tree:      *)
(* [j, v] with j the JSON type; an object is a function from key to value, *)
(* as MarshalIndent writes the keys of a map in sorted order.              *)
(***************************************************************************)
\* const keep = 3
keep == 3

\* strings.Repeat(c, n)
Repeat(c, n) == [i \in 1..n |-> c]

\* secret[:keep] + strings.Repeat("*", n-keep), with n := len(secret) in bytes
mask(secret) ==
  IF Len(secret) <= keep THEN Repeat("*", Len(secret))
  ELSE SubSeq(secret, 1, keep) \o Repeat("*", Len(secret) - keep)

\* the string as encoding/json writes it: a byte that is not part of a
\* valid UTF-8 sequence is written as the replacement character U+FFFD
RECURSIVE jsonString(_, _)
jsonString(s, i) ==
  IF i > Len(s) THEN <<>>
  ELSE IF i < Len(s) /\ s[i] = "C3" /\ s[i + 1] = "A9"
  THEN <<"C3", "A9">> \o jsonString(s, i + 2)
  ELSE IF s[i] \in {"C3", "A9"} THEN <<"\\ufffd">> \o jsonString(s, i + 1)
  ELSE <<s[i]>> \o jsonString(s, i + 1)

\* a JSON value of type j; J("null", <<>>) is null, and J("overflow", <<>>)
\* stands for no value at all: the goroutine stack was exhausted
J(j, v) == [j |-> j, v |-> v]

JStr(s) == J("string", jsonString(s, 1))

\* json.Marshal of fv.Interface() for the scalar types of the model, and
\* for a struct of them: an object of its exported fields under their Go
\* names, whatever their tags
RECURSIVE marshal(_, _)
marshal(v, t) ==
  CASE Kind(t) = "string" -> JStr(v)
    [] Kind(t) = "bool" -> J("bool", v)
    [] Kind(t) \in NumericKinds -> J("number", v)
    [] Kind(t) = "struct" ->
         J("object",
           [n \in {StructFields(t)[i].name :
                     i \in {j \in 1..NumField(t) : StructFields(t)[j].exported}} |->
              LET i == CHOOSE j \in 1..NumField(t) : StructFields(t)[j].name = n
              IN marshal(v[i], StructFields(t)[i].type)])
    [] OTHER -> J("null", <<>>)

\* escape(s, encodeUserPassword) of net/url: letters, digits and ',' stay,
\* every other byte of the model is percent-encoded
RECURSIVE escape(_)
escape(s) ==
  IF s = <<>> THEN <<>>
  ELSE (CASE Head(s) = "*" -> <<"%", "2", "A">>
          [] Head(s) = "@" -> <<"%", "4", "0">>
          [] Head(s) = ":" -> <<"%", "3", "A">>
          [] Head(s) = " " -> <<"%", "2", "0">>
          [] OTHER -> <<Head(s)>>)
       \o escape(Tail(s))

\* (*URL).String() with (*Userinfo).String(), for hosts, paths and queries that need no escaping
URLString(u) ==
  (IF u.scheme # <<>> THEN u.scheme \o <<":">> ELSE <<>>)
  \o (IF u.scheme # <<>> \/ u.host # <<>> \/ u.user.set
      THEN (IF u.host # <<>> \/ u.path # <<>> \/ u.user.set
            THEN <<"/", "/">> ELSE <<>>)
           \o (IF u.user.set THEN escape(u.user.name) ELSE <<>>)
           \o (IF u.user.set /\ u.user.pwset
               THEN <<":">> \o escape(u.user.pw) ELSE <<>>)
           \o (IF u.user.set THEN <<"@">> ELSE <<>>)
           \o u.host
      ELSE <<>>)
  \o (IF u.path # <<>> /\ u.path[1] # "/" /\ u.host # <<>> THEN <<"/">> ELSE <<>>)
  \o u.path
  \o (IF u.query # <<>> THEN <<"?">> \o u.query ELSE <<>>)

isURLType(t) == t \in {"url.URL", "*url.URL"}

\* mutant: the locator is rendered with its password
maskedStringKeepsPassword(u) == URLString(u)

\* the two cases of maskURLPassword, for the URL u (a non-nil *url.URL is
\* dereferenced): masked.User = url.UserPassword(u.User.Username(), "***")
maskedString(u) ==
  IF u.user.set /\ u.user.pwset
  THEN URLString([u EXCEPT !.user = UserPassword(u.user.name, Repeat("*", 3))])
  ELSE URLString(u)

maskURLPassword(hp, val, t) ==
  IF t = "url.URL" THEN JStr(maskedString(val))
  ELSE IF t = "*url.URL"
  THEN IF val = 0 THEN J("null", <<>>) ELSE JStr(maskedString(hp[val].val))
  ELSE marshal(val, t)

\* the key of a field in the safe map
SafeKey(sf) ==
  IF sf.env # "" THEN sf.env
  ELSE IF sf.secret # "" THEN sf.secret
  ELSE sf.name

\* case sf.Tag.Get("secret") != "": the assertion .(string) holds for the
\* type string only
secretValue(sf, fv) ==
  IF Kind(sf.type) = "slice"
  THEN J("array", [i \in 1..Len(fv.elems) |->
                     IF Elem(sf.type) = "string" THEN JStr(mask(fv.elems[i]))
                     ELSE JStr(Repeat("*", 3))])
  ELSE IF sf.type = "string" THEN JStr(mask(fv))
  ELSE JStr(Repeat("*", 3))

\* case fv.Kind() == reflect.Slice
plainSlice(hp, sf, fv) ==
  J("array", [i \in 1..Len(fv.elems) |->
                IF isURLType(Elem(sf.type))
                THEN maskURLPassword(hp, fv.elems[i], Elem(sf.type))
                ELSE marshal(fv.elems[i], Elem(sf.type))])

RECURSIVE buildSafeMap(_, _, _, _)

\* case pointer to struct: nil is kept as nil
safePointee(hp, fv, t, d) ==
  IF fv = 0 THEN J("null", <<>>) ELSE buildSafeMap(hp, hp[fv].val, t, d + 1)

\* the switch of buildSafeMap for the field sf holding fv
safeValue(hp, sf, fv, d) ==
  IF sf.secret # "" THEN secretValue(sf, fv)
  ELSE IF isURLType(sf.type) THEN maskURLPassword(hp, fv, sf.type)
  ELSE IF Kind(sf.type) = "slice" THEN plainSlice(hp, sf, fv)
  ELSE IF Kind(sf.type) = "struct" THEN buildSafeMap(hp, fv, sf.type, d + 1)
  ELSE IF Kind(sf.type) = "ptr" /\ Kind(Elem(sf.type)) = "struct"
  THEN safePointee(hp, fv, Elem(sf.type), d)
  ELSE marshal(fv, sf.type)

\* out[key] = x; nothing is built once the stack is exhausted
put(out, key, x) ==
  IF out.j = "overflow" \/ x.j = "overflow" THEN J("overflow", <<>>)
  ELSE J("object", (key :> x) @@ out.v)

\* one iteration of the loop of buildSafeMap
putField(hp, out, sf, fv, d) ==
  IF ~sf.exported \/ out.j = "overflow" THEN out
  ELSE put(out, SafeKey(sf), safeValue(hp, sf, fv, d))

RECURSIVE safeFields(_, _, _, _, _, _)
safeFields(hp, val, t, i, out, d) ==
  IF i > NumField(t) THEN out
  ELSE safeFields(hp, val, t, i + 1,
                  putField(hp, out, StructFields(t)[i], val[i], d), d)

\* deeper than MaxDepth the goroutine stack is taken to be exhausted
buildSafeMap(hp, val, t, d) ==
  IF d > MaxDepth THEN J("overflow", <<>>)
  ELSE safeFields(hp, val, t, 1, J("object", <<>>), d)

\* what PrettyString returns: the JSON text of the safe map, or the
\* message; kind "overflow" is the fatal stack overflow, where it does not
\* return
Marshalled(obj) ==
  IF obj.j = "overflow" THEN [kind |-> "overflow", doc |-> obj]
  ELSE [kind |-> "json", doc |-> obj]

\* PrettyString(c): c is nil (form "nil"), a pointer to the struct at addr
\* or a nil pointer when addr is 0 (form "ptr"), the struct at addr passed
\* by value (form "value"), or a value of a non-struct type (form "other");
\* the message is fmt.Sprintf("%T is not a struct", c)
PrettyString(hp, c) ==
  IF c.form \in {"ptr", "value"} /\ c.addr # 0
  THEN Marshalled(buildSafeMap(hp, hp[c.addr].val, hp[c.addr].type, 0))
  ELSE [kind |-> "text",
        doc |-> << IF c.form = "nil" THEN "<nil>"
                   ELSE IF c.form = "ptr" THEN "*" \o c.type
                   ELSE c.type,
                   " is not a struct" >>]

(***************************************************************************)
(* The metadata collector.  A walk state st is [heap, list, overflow]: the *)
(* heap with the values reflect.New made, the settings collected so far,   *)
(* and whether the goroutine stack was exhausted.  A path is the sequence  *)
(* of the fragments that are joined into it.                               *)
(***************************************************************************)
\* FieldSetting{...} for the leaf field sf.  Type is fv.Type().String(): a
\* type the configuration's package declares is qualified with the package
\* name.  Required is strings.ToLower(requiredVal) == "true": the tag in any
\* mix of upper and lower case.  Tags holds the tags that are set.
FieldSetting(sf, fieldPath) ==
  LET named(t) == IF t \in (StructTypes \ OpaqueStructs) \cup NamedStrings
                  THEN "gonfig." \o t ELSE t
      pointed(t) == IF Kind(t) = "ptr" THEN "*" \o named(Elem(t)) ELSE named(t)
  IN
  [Path |-> fieldPath,
   FieldName |-> sf.name,
   EnvVar |-> IF sf.env # "" THEN sf.env
              ELSE IF sf.secret # "" THEN sf.secret
              ELSE sf.name,
   Type |-> IF Kind(sf.type) = "slice" THEN "[]" \o pointed(Elem(sf.type))
            ELSE pointed(sf.type),
   Default |-> sf.def,
   Required |-> sf.required \in
                  {"true", "truE", "trUe", "trUE", "tRue", "tRuE", "tRUe", "tRUE",
                   "True", "TruE", "TrUe", "TrUE", "TRue", "TRuE", "TRUe", "TRUE"},
   Secret |-> sf.secret # "",
   Tags |-> [k \in {n \in {"env", "secret", "default", "required", "json", "yaml"} :
                      (CASE n = "env" -> sf.env # ""
                         [] n = "secret" -> sf.secret # ""
                         [] n = "default" -> sf.def # <<>>
                         [] n = "required" -> sf.required # ""
                         [] n = "json" -> sf.json # ""
                         [] OTHER -> sf.yaml # "")} |->
               CASE k = "env" -> <<sf.env>>
                 [] k = "secret" -> <<sf.secret>>
                 [] k = "default" -> sf.def
                 [] k = "required" -> <<sf.required>>
                 [] k = "json" -> <<sf.json>>
                 [] OTHER -> <<sf.yaml>>]]

RECURSIVE collectSettings(_, _, _, _, _, _, _)

\* a pointer p to a struct of type t: a nil pointer is replaced by a fresh
\* zero value, reflect.New(t).Elem(), and the struct is traversed
collectPointee(R, st, p, t, fieldPath, d) ==
  IF p = 0
  THEN collectSettings(R, New(st, t), Len(st.heap) + 1, <<>>, t, fieldPath, d + 1)
  ELSE collectSettings(R, st, p, <<>>, t, fieldPath, d + 1)

\* one iteration of the loop of collectSettings, for the field sf at (a, fp)
collectField(R, st, a, fp, sf, fieldPath, d) ==
  IF ~sf.exported THEN st
  ELSE IF Kind(sf.type) = "struct" /\ ~isCustomParsedType(R, sf.type)
  THEN collectSettings(R, st, a, fp, sf.type, fieldPath, d + 1)
  ELSE IF /\ Kind(sf.type) = "ptr"
          /\ Kind(Elem(sf.type)) = "struct"
          /\ ~isCustomParsedType(R, Elem(sf.type))
  THEN collectPointee(R, st, FieldValue(st.heap, a, fp), Elem(sf.type), fieldPath, d)
  ELSE [st EXCEPT !.list = Append(st.list, FieldSetting(sf, fieldPath))]

\* the loop of collectSettings from field i on; fieldPath is sf.Name, or
\* prefix + "." + sf.Name
RECURSIVE collectFields(_, _, _, _, _, _, _, _)
collectFields(R, st, a, path, t, i, prefix, d) ==
  IF i > NumField(t) \/ st.overflow THEN st
  ELSE collectFields(R,
         collectField(R, st, a, Append(path, i), StructFields(t)[i],
                      IF prefix = <<>> THEN <<StructFields(t)[i].name>>
                      ELSE prefix \o <<".", StructFields(t)[i].name>>, d),
         a, path, t, i + 1, prefix, d)

\* deeper than MaxDepth the goroutine stack is taken to be exhausted
collectSettings(R, st, a, path, t, prefix, d) ==
  IF d > MaxDepth THEN [st EXCEPT !.overflow = TRUE]
  ELSE collectFields(R, st, a, path, t, 1, prefix, d)

\* Settings(c), for an argument c as PrettyString takes it
Settings(R, hp, c) ==
  IF c.form \in {"ptr", "value"} /\ c.addr # 0
  THEN collectSettings(R, [heap |-> hp, list |-> <<>>, overflow |-> FALSE],
                       c.addr, <<>>, hp[c.addr].type, <<>>, 0)
  ELSE [heap |-> hp, list |-> <<>>, overflow |-> FALSE]

(***************************************************************************)
(* Inputs: the configuration values a caller may pass in, and the          *)
(* environments it may run in.                                             *)
(***************************************************************************)
Obj(t, val) == [type |-> t, val |-> val]

ZeroHeap(t) == << Obj(t, ZeroValue(t)) >>

Fixtures ==
  { ZeroHeap("Basic"),
    << Obj("Basic", << <<"1", "1">>, <<"a">>, 7, <<"a">> >>) >>,
    ZeroHeap("List"),
    << Obj("List", << MakeSlice(<< <<"1">> >>), MakeSlice(<<>>), <<"1">> >>) >>,
    ZeroHeap("Req"),
    << Obj("Req", << <<"1">>, 5, <<"1">> >>) >>,
    ZeroHeap("Typed"),
    << Obj("Typed", << UnixTime(5), <<"a">>, 3 >>) >>,
    ZeroHeap("Nested"),
    << Obj("Nested", << <<"1">>, << <<"1">> >>, 2 >>),
       Obj("Cache", << <<"a">>, 0 >>) >>,
    << Obj("Nested", << <<>>, << <<>> >>, 2 >>),
       Obj("Cache", << <<"a">>, 3 >>),
       Obj("Inner", << 7 >>) >> }

\* the keys Load may look up for a configuration of type t
SchemaKeys(t) ==
  CASE t = "Basic" -> {"NAME", "PORT", "TOKEN"}
    [] t = "List" -> {"TAGS", "NUMS", "LAST"}
    [] t = "Req" -> {"KEY", "Must", "OPT"}
    [] t = "Typed" -> {"AT", "LVL", "COUNT"}
    [] t = "Nested" -> {"APP", "HOST", "ADDR", "ID"}
    [] OTHER -> {}

\* an environment: one key of the schema holds any string up to n
\* characters (or is unset), each other key is unset or holds "1"
Environments(t, n) ==
  { [k \in B \cup DOMAIN F |-> IF k \in DOMAIN F THEN F[k] ELSE <<"1">>] :
      B \in SUBSET SchemaKeys(t),
      F \in UNION { [{k} -> Strings(n)] : k \in SchemaKeys(t) } }
  \cup { [k \in B |-> <<"1">>] : B \in SUBSET SchemaKeys(t) }

\* what the last call was given and what it returned
NoRes ==
  [op |-> "none", err |-> NoErr, ret |-> 0, pre |-> <<>>, envPre |-> <<>>,
   log |-> <<>>, paths |-> <<>>, t |-> "", raw |-> <<>>, out |-> Fail(""),
   fn |-> "", arg |-> [form |-> "", addr |-> 0, type |-> ""],
   str |-> [kind |-> "", doc |-> <<>>],
   settings |-> [kind |-> "", list |-> <<>>],
   pc |-> "", i |-> 0, seen |-> <<>>, asked |-> <<>>]

Registry == [env |-> env, parsers |-> customParsers, factories |-> parserFactories]

TheConfig == [form |-> "ptr", addr |-> 1]

Init ==
  /\ heap \in Fixtures
  /\ env \in Environments(heap[1].type, MaxLen)
  /\ customParsers = BuiltinParsers
  /\ parserFactories = <<"text">>
  /\ files = <<>>
  /\ res = NoRes

\* the call returns: the heap holds what the walk wrote, res what the caller
\* passed and got back
Returns(op, out, paths) ==
  /\ heap' = out.walk.heap
  /\ res' = [NoRes EXCEPT !.op = op, !.err = out.walk.err, !.ret = out.ret,
                          !.pre = heap, !.envPre = env, !.log = out.walk.log,
                          !.paths = paths]

\* cfg := &Config{...}; _, err := Load(cfg)
LoadCall ==
  /\ Returns("Load", Load(Registry, heap, TheConfig), <<>>)
  /\ UNCHANGED <<env, customParsers, parserFactories, files>>

Next == LoadCall

Spec == Init /\ [][Next]_vars

(***************************************************************************)
(* LoadWithDotenv: the process environment, the overlay files on disk and  *)
(* the paths the caller passes.                                            *)
(***************************************************************************)
\* a process environment for the overlay runs: each key of the schema is
\* unset, empty or "1"
SmallEnvironments(t) ==
  UNION { [B -> {<<>>, <<"1">>}] : B \in SUBSET SchemaKeys(t) }

\* the files on disk: ".env" is missing or holds an overlay, "custom.env" is
\* missing or defines TOKEN
FileSystems(t) ==
  { [p \in P |-> IF p = ".env" THEN o ELSE [TOKEN |-> <<"a">>]] :
      P \in SUBSET {".env", "custom.env"}, o \in Environments(t, MaxOverlayLen) }

\* the variadic dotenvPath arguments of a call
PathArgs == { <<>>, <<".env">>, <<"custom.env">>, <<".env", "custom.env">> }

InitDotenv ==
  /\ heap \in { ZeroHeap("Basic"),
                << Obj("Basic", << <<"1", "1">>, <<"a">>, 7, <<"a">> >>) >> }
  /\ env \in SmallEnvironments("Basic")
  /\ files \in FileSystems("Basic")
  /\ customParsers = BuiltinParsers
  /\ parserFactories = <<"text">>
  /\ res = NoRes

\* the call returns, leaving the environment it loaded the overlay into
ReturnsDotenv(r, paths) ==
  /\ Returns("LoadWithDotenv", r.out, paths)
  /\ env' = r.env

\* _, err := LoadWithDotenv(cfg, paths...)
LoadWithDotenvCall ==
  /\ \E paths \in PathArgs :
       ReturnsDotenv(LoadWithDotenv(Registry, files, heap, TheConfig, paths), paths)
  /\ UNCHANGED <<customParsers, parserFactories, files>>

NextDotenv == LoadWithDotenvCall \/ LoadCall

SpecDotenv == InitDotenv /\ [][NextDotenv]_vars

(***************************************************************************)
(* The registry: RegisterParser and RegisterParserFactory calls between    *)
(* calls of parseWithRegistry and Load.                                    *)
(***************************************************************************)
\* the types callers register parsers for and parse values of
ProbeTypes == {"CustomType", "Level", "string", "int", "time.Time"}

ProbeRaws == { <<>>, <<"1">>, <<"a">>, <<"1", "1">> }

InitRegistry ==
  /\ heap \in { ZeroHeap("Typed"), << Obj("Typed", << UnixTime(5), <<"a">>, 3 >>) >> }
  /\ env \in { <<>>, [LVL |-> <<"1">>], [AT |-> <<"1">>, COUNT |-> <<"1">>] }
  /\ files = <<>>
  /\ customParsers = BuiltinParsers
  /\ parserFactories = <<"text">>
  /\ res = NoRes

\* mutant: an entry the table already holds is kept
RegisterParserKeepsFirst(typ, fn) ==
  /\ customParsers' = [k \in DOMAIN customParsers \cup {typ} |->
                         IF k \in DOMAIN customParsers THEN customParsers[k] ELSE fn]
  /\ res' = [NoRes EXCEPT !.op = "RegisterParser", !.t = typ, !.fn = fn]
  /\ UNCHANGED <<env, heap, parserFactories, files>>

\* RegisterParser(reflect.TypeOf(T{}), fn): customParsers[typ] = fn
RegisterParser(typ, fn) ==
  /\ customParsers' = [k \in DOMAIN customParsers \cup {typ} |->
                         IF k = typ THEN fn ELSE customParsers[k]]
  /\ res' = [NoRes EXCEPT !.op = "RegisterParser", !.t = typ, !.fn = fn]
  /\ UNCHANGED <<env, heap, parserFactories, files>>

\* mutant: the new factory is put in front of the list
RegisterParserFactoryPrepends(factory) ==
  /\ Len(parserFactories) <= MaxFactories
  /\ parserFactories' = <<factory>> \o parserFactories
  /\ res' = [NoRes EXCEPT !.op = "RegisterParserFactory", !.fn = factory]
  /\ UNCHANGED <<env, heap, customParsers, files>>

\* RegisterParserFactory(factory): parserFactories = append(parserFactories, factory)
RegisterParserFactory(factory) ==
  /\ Len(parserFactories) <= MaxFactories
  /\ parserFactories' = Append(parserFactories, factory)
  /\ res' = [NoRes EXCEPT !.op = "RegisterParserFactory", !.fn = factory]
  /\ UNCHANGED <<env, heap, customParsers, files>>

\* val, err := parseWithRegistry(raw, t, t.Kind(), getBits(t)); res.asked
\* lists the factories the call has called
ParseCall(raw, t) ==
  /\ LET d == parseWithRegistryAsking(Registry, raw, t, Kind(t), getBits(t))
     IN  res' = [NoRes EXCEPT !.op = "parseWithRegistry", !.t = t, !.raw = raw,
                             !.out = d.out, !.asked = d.asked]
  /\ UNCHANGED <<env, heap, customParsers, parserFactories, files>>

NextRegistry ==
  \/ \E typ \in ProbeTypes \ {"int"}, fn \in UserParsers :
       RegisterParser(typ, fn)
  \/ \E factory \in UserFactories : RegisterParserFactory(factory)
  \/ \E raw \in ProbeRaws, t \in ProbeTypes : ParseCall(raw, t)
  \/ LoadCall

SpecRegistry == InitRegistry /\ [][NextRegistry]_vars

(***************************************************************************)
(* A Load that runs while another goroutine registers parsers.  Nothing    *)
(* synchronizes the two, so the registrations fall between the steps of    *)
(* the loop of loadStruct.  res.pc is the position of the Load inside the  *)
(* iteration for field res.i of the struct at address 1: "classify" at the *)
(* top of the loop, "parse" before parseWithRegistry, "assign" before the  *)
(* lookup that chooses between Set and Convert.  res.seen lists what the   *)
(* registry reads made for the field so far have observed.                 *)
(***************************************************************************)
Seen == [parsers |-> customParsers, factories |-> parserFactories]

\* the field takes the slice branch or is recursed into
Walked(sf) ==
  \/ Kind(sf.type) = "struct" /\ ~isCustomParsedType(Registry, sf.type)
  \/ /\ Kind(sf.type) = "ptr" /\ Kind(Elem(sf.type)) = "struct"
     /\ ~isCustomParsedType(Registry, sf.type)
  \/ Kind(sf.type) = "slice" /\ ~isCustomParsedType(Registry, sf.type)

\* Load returns err
Ends(err, log) ==
  [res EXCEPT !.op = "Load", !.err = err, !.ret = 1, !.log = log, !.pc = ""]

\* the loop goes on with the next field
Continues(log) ==
  [res EXCEPT !.pc = "classify", !.i = @ + 1, !.log = log]

EndsOrContinues(st) ==
  /\ heap' = st.heap
  /\ res' = IF st.err # NoErr THEN Ends(st.err, st.log) ELSE Continues(st.log)

\* isCustomParsedType is called for a field of type t: for a struct, for
\* a pointer to a struct, and for a slice (once its raw string is known not
\* to be empty); the && of the other kinds does not reach the call
Classifying(t) ==
  \/ Kind(t) \in {"struct", "slice"}
  \/ Kind(t) = "ptr" /\ Kind(Elem(t)) = "struct"

\* what the first registry read for a field of type t observes
Classified(t) == IF Classifying(t) THEN <<Seen>> ELSE <<>>

\* a scalar leaf: lookup, default, required, and the empty raw string
Resolves(sf, rr) ==
  /\ heap' = heap
  /\ res' = IF rr.skip \/ (rr.raw = <<>> /\ ~requiredMissing(rr.raw, sf))
            THEN Continues(res.log)
            ELSE IF requiredMissing(rr.raw, sf)
            THEN Ends([kind |-> "required", at |-> FieldKey(sf), cause |-> ""],
                      res.log)
            ELSE [res EXCEPT !.pc = "parse", !.raw = rr.raw, !.t = sf.type,
                             !.seen = Classified(sf.type)]

\* the iteration for the field sf
Classifies(sf) ==
  IF ~sf.exported THEN heap' = heap /\ res' = Continues(res.log)
  ELSE IF Walked(sf)
  THEN EndsOrContinues(loadField(Registry,
                                 [heap |-> heap, err |-> NoErr, log |-> res.log],
                                 1, <<res.i>>, sf, 0))
  ELSE Resolves(sf, resolveRaw(Registry, sf, heap[1].val[res.i]))

\* Load(cfg) is called, once, and reaches the loop of loadStruct
LoadBegins ==
  /\ res.op = "none" /\ res.pc = ""
  /\ res' = [NoRes EXCEPT !.pc = "classify", !.i = 1, !.pre = heap, !.envPre = env]
  /\ UNCHANGED <<env, heap, customParsers, parserFactories, files>>

\* the top of the loop: past the last field Load returns nil
LoadClassifies ==
  /\ res.pc = "classify"
  /\ IF res.i > NumField(heap[1].type)
     THEN heap' = heap /\ res' = Ends(NoErr, res.log)
     ELSE Classifies(StructFields(heap[1].type)[res.i])
  /\ UNCHANGED <<env, customParsers, parserFactories, files>>

\* what follows the call of parseWithRegistry that returned r
Parsed(r) ==
  IF ~r.ok
  THEN Ends([kind |-> "field", at |-> StructFields(heap[1].type)[res.i].name,
             cause |-> r.cause], res.log)
  ELSE [res EXCEPT !.pc = "assign", !.out = r, !.seen = Append(@, Seen)]

\* parsed, err := parseWithRegistry(raw, fv.Type(), fv.Kind(), getBits(fv.Type()))
LoadParses ==
  /\ res.pc = "parse"
  /\ res' = Parsed(parseWithRegistry(Registry, res.raw, res.t, Kind(res.t),
                                     getBits(res.t)))
  /\ UNCHANGED <<env, heap, customParsers, parserFactories, files>>

Assigned(st) ==
  /\ heap' = st.heap
  /\ res' = IF st.err # NoErr
            THEN [Ends(st.err, st.log) EXCEPT !.seen = Append(@, Seen)]
            ELSE [Continues(st.log) EXCEPT !.seen = Append(@, Seen)]

\* if _, isCustom := customParsers[fv.Type()]; isCustom { fv.Set(...) }
\* else { fv.Set(... .Convert(fv.Type())) }
LoadAssigns ==
  /\ res.pc = "assign"
  /\ Assigned(setScalar(Registry, [heap |-> heap, err |-> NoErr, log |-> res.log],
                        1, <<res.i>>, StructFields(heap[1].type)[res.i], res.out))
  /\ UNCHANGED <<env, customParsers, parserFactories, files>>

\* RegisterParser in another goroutine while the Load runs: the write to
\* the map lands between two steps of the Load, or it overlaps the read of
\* customParsers that the next step of the Load makes, and the runtime ends
\* the process with the fatal error "concurrent map read and map write".
\* The parse and assign steps read the map, and so does the top of the loop
\* for a field that isCustomParsedType is called for.
RegisterParserMeanwhile(typ, fn) ==
  /\ res.pc # ""
  /\ customParsers' = [k \in DOMAIN customParsers \cup {typ} |->
                         IF k = typ THEN fn ELSE customParsers[k]]
  /\ \/ res' = res
     \/ /\ \/ res.pc \in {"parse", "assign"}
           \/ /\ res.pc = "classify"
              /\ res.i <= NumField(heap[1].type)
              /\ StructFields(heap[1].type)[res.i].exported
              /\ Classifying(StructFields(heap[1].type)[res.i].type)
              /\ Kind(StructFields(heap[1].type)[res.i].type) = "slice" =>
                   LET rr == resolveRaw(Registry, StructFields(heap[1].type)[res.i],
                                        heap[1].val[res.i])
                   IN ~rr.skip /\ rr.raw # <<>>
        /\ res' = Ends([kind |-> "fatal", at |-> "",
                        cause |-> "concurrent map read and map write"], res.log)
  /\ UNCHANGED <<env, heap, parserFactories, files>>

\* RegisterParserFactory in another goroutine while the Load runs
RegisterParserFactoryMeanwhile(factory) ==
  /\ res.pc # ""
  /\ Len(parserFactories) <= MaxFactories
  /\ parserFactories' = Append(parserFactories, factory)
  /\ UNCHANGED <<env, heap, customParsers, files, res>>

NextRace ==
  \/ LoadBegins
  \/ LoadClassifies
  \/ LoadParses
  \/ LoadAssigns
  \/ \E typ \in {"Level", "uint"} : RegisterParserMeanwhile(typ, "custom")
  \/ RegisterParserFactoryMeanwhile("facString")

SpecRace == InitRegistry /\ [][NextRace]_vars

(***************************************************************************)
(* A program that inspects a configuration: it may print it or list its    *)
(* settings before or after loading it, whether or not the load succeeded. *)
(***************************************************************************)
\* the longest secret, in characters
MaxRunes == 4

RECURSIVE Texts(_)
\* the strings of up to n characters, each a, b or the two-byte é
Texts(n) ==
  IF n = 0 THEN { <<>> }
  ELSE Texts(n - 1)
       \cup { r \o s : r \in { <<"a">>, <<"b">>, <<"C3", "A9">> }, s \in Texts(n - 1) }

\* locators with and without a user, a password and a query
URLs ==
  { URL(<<"s">>, u, <<"h">>, <<"/", "p">>, q) :
      u \in { NoUser, [NoUser EXCEPT !.set = TRUE, !.name = <<"u">>] }
            \cup { UserPassword(<<"u">>, pw) :
                     pw \in { <<>>, <<"x">>, <<"x", "y">>, <<"*">> } },
      q \in { <<>>, <<"q">> } }
  \cup { ZeroURL, URL(<<>>, NoUser, <<>>, <<"p">>, <<>>) }

\* configurations to print: secrets; locators; a team of one member with a
\* secret token; a list of one node, of two nodes, and two lists that are
\* cyclic
InspectFixtures ==
  { << Obj("Secrets", << k, ks, 7, cs, << <<"a">> >>, <<"a">> >>) >> :
      k \in Texts(MaxRunes),
      ks \in { NilSlice,
               MakeSlice(<< <<"s", "e", "c", "r", "e", "t", "1", "2", "3">>,
                            <<"a">> >>) },
      cs \in { NilSlice, MakeSlice(<< 1, 2 >>) } }
  \cup
  { << Obj("Links", << u, b, IF b = 0 THEN NilSlice ELSE MakeSlice(<< u, v >>),
                       MakeSlice(<< 0, 2 >>), v >>),
       Obj("url.URL", v) >> :
      u \in URLs, v \in URLs, b \in {0, 2} }
  \cup
  { << Obj("Team", << MakeSlice(<< << <<"a">>, <<>>, 1, k >> >>) >>) >> :
      k \in { <<"a", "b", "c", "a">>, <<"a", "b", "c", "b">> } }
  \cup
  { << Obj("Node", << 1, 0 >>) >>,
    << Obj("Node", << 1, 2 >>), Obj("Node", << 2, 0 >>) >>,
    << Obj("Node", << 1, 1 >>) >>,
    << Obj("Node", << 1, 2 >>), Obj("Node", << 2, 1 >>) >> }

\* the arguments a caller may pass for the configuration at address 1
\* of the heap hp: nil, a nil pointer, a pointer, the value, an int, a *int
InspectArgs(hp) ==
  { [form |-> "nil", addr |-> 0, type |-> ""],
    [form |-> "ptr", addr |-> 0, type |-> hp[1].type],
    [form |-> "ptr", addr |-> 1, type |-> hp[1].type],
    [form |-> "value", addr |-> 1, type |-> hp[1].type],
    [form |-> "other", addr |-> 0, type |-> "int"],
    [form |-> "other", addr |-> 0, type |-> "*int"] }

InitInspect ==
  /\ heap \in Fixtures \cup InspectFixtures
  /\ env \in SmallEnvironments(heap[1].type)
  /\ customParsers = BuiltinParsers
  /\ parserFactories = <<"text">>
  /\ files = <<>>
  /\ res = NoRes

\* s := PrettyString(c); what the last Load returned is kept
PrettyStringCall(c) ==
  /\ res' = [res EXCEPT !.op = "PrettyString", !.arg = c,
                        !.str = PrettyString(heap, c),
                        !.settings = NoRes.settings]
  /\ UNCHANGED <<env, heap, customParsers, parserFactories, files>>

\* Settings returns st.list (nil when empty); the values it made are
\* garbage then, and the heap keeps the objects it held before the call
ReturnsSettings(c, st) ==
  /\ heap' = SubSeq(st.heap, 1, Len(heap))
  /\ res' = [res EXCEPT !.op = "Settings", !.arg = c, !.pre = heap,
                        !.str = NoRes.str,
                        !.settings = [kind |-> IF st.overflow THEN "overflow"
                                               ELSE "settings",
                                      list |-> st.list]]

\* s := Settings(c)
SettingsCall(c) ==
  /\ ReturnsSettings(c, Settings(Registry, heap, c))
  /\ UNCHANGED <<env, customParsers, parserFactories, files>>

NextInspect ==
  \/ \E c \in InspectArgs(heap) : PrettyStringCall(c)
  \/ \E c \in InspectArgs(heap) : SettingsCall(c)
  \/ LoadCall

SpecInspect == InitInspect /\ [][NextInspect]_vars

(***************************************************************************)
(* What the properties speak of: the leaf fields of the returned           *)
(* configuration in depth-first declaration order, their values before and *)
(* after the call, and the value a raw string stands for (stated on the    *)
(* positions of the commas and blanks, not by the loader's loop).          *)
(***************************************************************************)
RECURSIVE FieldSeq(_, _, _, _, _)
FieldSeq(R, hp, a, path, t) ==
  LET one(i) ==
        LET sf == StructFields(t)[i]
            fp == Append(path, i)
            ft == sf.type
            me(role) == << [a |-> a, p |-> fp, sf |-> sf, role |-> role] >>
        IN
        IF ~sf.exported THEN <<>>
        ELSE IF Kind(ft) = "struct" /\ ~isCustomParsedType(R, ft)
        THEN me("struct") \o FieldSeq(R, hp, a, fp, ft)
        ELSE IF Kind(ft) = "ptr" /\ Kind(Elem(ft)) = "struct"
                /\ ~isCustomParsedType(R, ft)
        THEN IF FieldValue(hp, a, fp) = 0 THEN me("ptr")
             ELSE me("ptr") \o FieldSeq(R, hp, FieldValue(hp, a, fp), <<>>, Elem(ft))
        ELSE me("leaf")
      from[i \in 1..(NumField(t) + 1)] ==
        IF i > NumField(t) THEN <<>> ELSE one(i) \o from[i + 1]
  IN from[1]

\* the exported fields of the configuration the last call returned, in
\* depth-first declaration order, and the leaves among them
Fields == FieldSeq(Registry, heap, res.ret, <<>>, heap[res.ret].type)

IsLeaf(f) == f.role = "leaf"

Leaves == SelectSeq(Fields, IsLeaf)

FieldIdx == 1..Len(Fields)

LeafIdx == 1..Len(Leaves)

EarlierLeaves(i) == {j \in 1..(i - 1) : IsLeaf(Fields[j])}

PreVal(l) ==
  IF l.a <= Len(res.pre) THEN FieldValue(res.pre, l.a, l.p) ELSE ZeroValue(l.sf.type)

PostVal(l) == FieldValue(heap, l.a, l.p)

InSource(l) == FieldKey(l.sf) \in DOMAIN res.envPre

SourceVal(l) == res.envPre[FieldKey(l.sf)]

Written(l) == \E j \in 1..Len(res.log) : res.log[j] = [a |-> l.a, p |-> l.p]

Loaded == res.op \in {"Load", "LoadWithDotenv"}

Succeeded == Loaded /\ res.err = NoErr

NonBlank(s) == {i \in 1..Len(s) : s[i] # " "}

Min(S) == CHOOSE x \in S : \A y \in S : x <= y

Max(S) == CHOOSE x \in S : \A y \in S : x >= y

Trimmed(s) ==
  IF NonBlank(s) = {} THEN <<>> ELSE SubSeq(s, Min(NonBlank(s)), Max(NonBlank(s)))

Commas(s) == {i \in 1..Len(s) : s[i] = ","}

\* the k-th comma-separated part: between the (k-1)-th and the k-th comma
PartOf(s, k) ==
  LET before == {i \in Commas(s) : Cardinality({j \in Commas(s) : j <= i}) = k - 1}
      after == {i \in Commas(s) : Cardinality({j \in Commas(s) : j <= i}) = k}
      lo == IF before = {} THEN 1 ELSE Max(before) + 1
      hi == IF after = {} THEN Len(s) ELSE Min(after) - 1
  IN SubSeq(s, lo, hi)

IsItem(x) == x # <<>>

\* the non-empty trimmed parts of a raw list, in order
Items(s) ==
  SelectSeq([k \in 1..(Cardinality(Commas(s)) + 1) |-> Trimmed(PartOf(s, k))], IsItem)

\* the value a raw string stands for, for one element of type t
ScalarOf(t, raw) ==
  LET r == parseWithRegistry(Registry, raw, t, Kind(t), getBits(t)) IN r.v

\* the value a non-empty raw string stands for, for a field of type t
ValueOf(t, raw) ==
  IF Kind(t) = "slice" /\ ~isCustomParsedType(Registry, t)
  THEN MakeSlice([k \in 1..Len(Items(raw)) |-> ScalarOf(Elem(t), Items(raw)[k])])
  ELSE ScalarOf(t, raw)

\* C1: after a Load that returns no error, every leaf field whose key the
\* environment holds with a non-empty value has the value parsed from that
\* value, whatever its default tag and whatever it held before the call.
C1_SourceValueWins ==
  Succeeded =>
    \A i \in LeafIdx :
      LET l == Leaves[i] IN
      (InSource(l) /\ SourceVal(l) # <<>>) => PostVal(l) = ValueOf(l.sf.type, SourceVal(l))

\* a field with a default and a non-zero value before the call took the
\* source value, which differs from both
C1_Witness ==
  /\ Succeeded
  /\ \E i \in LeafIdx :
       LET l == Leaves[i] IN
       /\ InSource(l) /\ SourceVal(l) # <<>>
       /\ l.sf.def # <<>> /\ SourceVal(l) # l.sf.def
       /\ ~IsZero(PreVal(l), l.sf.type)
       /\ PostVal(l) # PreVal(l)
       /\ PostVal(l) = ValueOf(l.sf.type, SourceVal(l))

\* C2: a leaf field whose key the environment does not hold keeps a non-zero
\* value (whether or not the call fails later); after a Load that returns no
\* error a zero one holds the value parsed from its default tag, and stays
\* zero when it has no default.  This holds at every depth.
C2_DefaultOnlyForZero ==
  Loaded =>
    \A i \in LeafIdx :
      LET l == Leaves[i] IN
      ~InSource(l) =>
        IF ~IsZero(PreVal(l), l.sf.type) THEN PostVal(l) = PreVal(l) /\ ~Written(l)
        ELSE Succeeded =>
               IF l.sf.def # <<>> THEN PostVal(l) = ValueOf(l.sf.type, l.sf.def)
               ELSE PostVal(l) = PreVal(l)

\* in one call: inside a struct reached through a pointer a zero field took
\* its default, and inside a nested struct value a non-zero field with a
\* default was kept
C2_Witness ==
  /\ Succeeded
  /\ \E i, j \in LeafIdx :
       LET l == Leaves[i]
           m == Leaves[j]
       IN
       /\ l.a # res.ret /\ ~InSource(l) /\ IsZero(PreVal(l), l.sf.type)
       /\ l.sf.def # <<>> /\ PostVal(l) = ValueOf(l.sf.type, l.sf.def)
       /\ ~IsZero(PostVal(l), l.sf.type)
       /\ Len(m.p) > 1 /\ ~InSource(m) /\ ~IsZero(PreVal(m), m.sf.type)
       /\ m.sf.def # <<>> /\ PostVal(m) = PreVal(m)
       /\ PostVal(m) # ValueOf(m.sf.type, m.sf.def)

IsPlainSlice(t) == Kind(t) = "slice" /\ ~isCustomParsedType(Registry, t)

\* the field is left alone: its key is absent and it holds a non-zero value
Kept(l) == ~InSource(l) /\ ~IsZero(PreVal(l), l.sf.type)

\* the raw string of a field that is not left alone
RawOf(l) == IF InSource(l) THEN SourceVal(l) ELSE l.sf.def

\* every item of a raw string parses for type t
Parses(t, raw) ==
  IF IsPlainSlice(t)
  THEN \A k \in 1..Len(Items(raw)) :
         parseWithRegistry(Registry, Items(raw)[k], Elem(t), Kind(Elem(t)),
                           getBits(Elem(t))).ok
  ELSE parseWithRegistry(Registry, raw, t, Kind(t), getBits(t)).ok

\* the field's own input makes the call fail
FieldFails(l) ==
  /\ ~Kept(l)
  /\ \/ RawOf(l) = <<>> /\ l.sf.required = "true"
     \/ RawOf(l) # <<>> /\ ~Parses(l.sf.type, RawOf(l))

\* no leaf before position i fails, so the walk reaches position i
Reached(i) == \A j \in EarlierLeaves(i) : ~FieldFails(Fields[j])

RequiredErr(key) == [kind |-> "required", at |-> key, cause |-> ""]

\* C4: when Load reaches a required leaf field that holds its zero value and
\* whose raw value (source value, else default) is empty, it returns the
\* error `required env "<key>" missing` with the field's resolved key, and
\* neither that field nor any field after it in depth-first declaration
\* order is written.
C4_RequiredMissingStops ==
  Loaded =>
    \A i \in FieldIdx :
      LET l == Fields[i] IN
      ( /\ IsLeaf(l) /\ l.sf.required = "true"
        /\ IsZero(PreVal(l), l.sf.type) /\ RawOf(l) = <<>>
        /\ Reached(i) ) =>
        /\ res.err = RequiredErr(FieldKey(l.sf))
        /\ ErrorText(res.err)
             = <<"required env ", "\"", FieldKey(l.sf), "\"", " missing">>
        /\ \A j \in i..Len(Fields) :
             ~Written(Fields[j]) /\ PostVal(Fields[j]) = PreVal(Fields[j])

\* a required field without tags failed under its field name after an
\* earlier field was written, and a later field with a default stayed zero
C4_Witness ==
  /\ Loaded
  /\ \E i, j, k \in FieldIdx :
       LET l == Fields[i]
           m == Fields[j]
           e == Fields[k]
       IN
       /\ k < i /\ i < j /\ IsLeaf(l) /\ IsLeaf(m) /\ IsLeaf(e)
       /\ l.sf.required = "true" /\ IsZero(PreVal(l), l.sf.type)
       /\ RawOf(l) = <<>> /\ Reached(i)
       /\ res.err = RequiredErr(l.sf.name)
       /\ Written(e) /\ PostVal(e) # PreVal(e)
       /\ IsZero(PreVal(m), m.sf.type) /\ m.sf.def # <<>> /\ ~InSource(m)
       /\ IsZero(PostVal(m), m.sf.type)

\* the source or the default tag supplies a non-empty value
Supplied(l) == (InSource(l) /\ SourceVal(l) # <<>>) \/ l.sf.def # <<>>

\* C5: for a required leaf field that Load reaches holding its zero value,
\* the required error is returned exactly when neither the source nor the
\* default tag supplies a non-empty value: a non-empty default always
\* satisfies the requirement, whatever the source holds.
C5_RequiredIffNothingSupplied ==
  Loaded =>
    \A i \in FieldIdx :
      LET l == Fields[i] IN
      ( /\ IsLeaf(l) /\ l.sf.required = "true"
        /\ IsZero(PreVal(l), l.sf.type) /\ Reached(i) ) =>
        (res.err = RequiredErr(FieldKey(l.sf)) <=> ~Supplied(l))

\* C6: after a Load that returns no error, a sequence field whose raw value
\* (source value, else default for a zero field) is non-empty holds exactly
\* the parsed non-empty trimmed comma-separated parts of it, in order,
\* whatever it held before.
C6_ListItems ==
  Succeeded =>
    \A i \in LeafIdx :
      LET l == Leaves[i]
          items == Items(RawOf(l))
          post == PostVal(l)
      IN
      (IsPlainSlice(l.sf.type) /\ ~Kept(l) /\ RawOf(l) # <<>>) =>
        /\ ~post.isnil
        /\ Len(post.elems) = Len(items)
        /\ \A k \in 1..Len(items) :
             post.elems[k] = ScalarOf(Elem(l.sf.type), items[k])

\* a list that held an element was replaced by the items of a source value
\* with an empty part and a padded part
C6_Witness ==
  /\ Succeeded
  /\ \E i \in LeafIdx :
       LET l == Leaves[i] IN
       /\ IsPlainSlice(l.sf.type) /\ InSource(l)
       /\ Len(PreVal(l).elems) > 0
       /\ Len(Items(SourceVal(l))) < Cardinality(Commas(SourceVal(l))) + 1
       /\ \E k \in 1..(Cardinality(Commas(SourceVal(l))) + 1) :
            /\ PartOf(SourceVal(l), k) # Trimmed(PartOf(SourceVal(l), k))
            /\ Trimmed(PartOf(SourceVal(l), k)) # <<>>
       /\ Len(PostVal(l).elems) = Len(Items(SourceVal(l)))
       /\ Len(PostVal(l).elems) > 0
       /\ PostVal(l).elems # PreVal(l).elems

\* C7: after a Load that returns no error, a sequence field whose key is
\* present in the source with the empty string holds a zero-length sequence,
\* whatever it held before.
C7_EmptyStringEmptiesList ==
  Succeeded =>
    \A i \in LeafIdx :
      LET l == Leaves[i] IN
      (IsPlainSlice(l.sf.type) /\ InSource(l) /\ SourceVal(l) = <<>>) =>
        Len(PostVal(l).elems) = 0

\* the pointer-to-struct fields the walker descends into
IsStructPtr(f) == f.role = "ptr"

\* C8: after a Load that returns no error every pointer-to-struct field, at
\* any depth, is non-nil: one that was set points at the same struct, one
\* that was nil points at a struct allocated by this call, of the element
\* type, shared with no other field, whose fields without a source value
\* hold their defaults.
C8_PointersAllocated ==
  Succeeded =>
    \A i \in FieldIdx :
      LET f == Fields[i] IN
      IsStructPtr(f) =>
        /\ PostVal(f) # 0
        /\ PreVal(f) # 0 => PostVal(f) = PreVal(f) /\ ~Written(f)
        /\ PreVal(f) = 0 =>
             /\ PostVal(f) > Len(res.pre)
             /\ heap[PostVal(f)].type = Elem(f.sf.type)
             /\ \A j \in FieldIdx :
                  (j # i /\ IsStructPtr(Fields[j])) => PostVal(Fields[j]) # PostVal(f)
             /\ \A j \in FieldIdx :
                  LET l == Fields[j] IN
                  (IsLeaf(l) /\ l.a = PostVal(f) /\ ~InSource(l)) =>
                    PostVal(l) = IF l.sf.def # <<>> THEN ValueOf(l.sf.type, l.sf.def)
                                 ELSE ZeroValue(l.sf.type)

\* in one call a set pointer was kept and a nil pointer inside the struct it
\* points at was allocated, its field taking the default
C8_Witness ==
  /\ Succeeded
  /\ \E i, j, k \in FieldIdx :
       LET f == Fields[i]
           g == Fields[j]
           l == Fields[k]
       IN
       /\ IsStructPtr(f) /\ PreVal(f) # 0 /\ PostVal(f) = PreVal(f)
       /\ IsStructPtr(g) /\ g.a = PostVal(f) /\ PreVal(g) = 0
       /\ PostVal(g) > Len(res.pre)
       /\ IsLeaf(l) /\ l.a = PostVal(g) /\ ~InSource(l) /\ l.sf.def # <<>>
       /\ PostVal(l) = ValueOf(l.sf.type, l.sf.def)
       /\ ~IsZero(PostVal(l), l.sf.type)

\* C9: after a Load that returns no error, a leaf field that held a non-zero
\* value and whose key the source holds, with any value including the empty
\* string, no longer holds what it held: its value is the one the source
\* value stands for (the zero value for the empty string).
C9_SourceKeyOverridesPreset ==
  Succeeded =>
    \A i \in LeafIdx :
      LET l == Leaves[i] IN
      (InSource(l) /\ ~IsZero(PreVal(l), l.sf.type)) =>
        PostVal(l) = IF SourceVal(l) = <<>> THEN ZeroValue(l.sf.type)
                     ELSE ValueOf(l.sf.type, SourceVal(l))

\* the overlay file of the last LoadWithDotenv call, as a map (empty when
\* the file cannot be read)
Overlay ==
  LET path == IF res.paths = <<>> THEN ".env" ELSE res.paths[1] IN
  IF path \in DOMAIN files THEN files[path] ELSE <<>>

\* C3: LoadWithDotenv resolves every leaf in three tiers.  A key the process
\* environment held before the call keeps its value there, and that value
\* (not the overlay's) decides the field; a key only the overlay file
\* defines takes the overlay value; the default tag is used only when
\* neither holds the key, and then only for a zero field.
C3_ThreeTierPrecedence ==
  (res.op = "LoadWithDotenv" /\ res.err = NoErr) =>
    \A i \in LeafIdx :
      LET l == Leaves[i]
          k == FieldKey(l.sf)
          ty == l.sf.type
      IN
      IF InSource(l)
      THEN /\ k \in DOMAIN env /\ env[k] = SourceVal(l)
           /\ PostVal(l) = IF SourceVal(l) # <<>> THEN ValueOf(ty, SourceVal(l))
                           ELSE PreVal(l)
      ELSE IF k \in DOMAIN Overlay
      THEN PostVal(l) = IF Overlay[k] # <<>> THEN ValueOf(ty, Overlay[k])
                        ELSE PreVal(l)
      ELSE PostVal(l) = IF IsZero(PreVal(l), ty) /\ l.sf.def # <<>>
                        THEN ValueOf(ty, l.sf.def)
                        ELSE PreVal(l)

\* one call with all three tiers: a field took the environment's value
\* although the overlay defines its key differently, another took the
\* overlay's value although it has a default, a third took its default
C3_Witness ==
  /\ res.op = "LoadWithDotenv" /\ res.err = NoErr
  /\ \E i, j, k \in LeafIdx :
       LET l == Leaves[i]
           m == Leaves[j]
           n == Leaves[k]
       IN
       /\ InSource(l) /\ SourceVal(l) # <<>>
       /\ FieldKey(l.sf) \in DOMAIN Overlay
       /\ Overlay[FieldKey(l.sf)] # <<>>
       /\ Overlay[FieldKey(l.sf)] # SourceVal(l)
       /\ PostVal(l) = ValueOf(l.sf.type, SourceVal(l))
       /\ PostVal(l) # ValueOf(l.sf.type, Overlay[FieldKey(l.sf)])
       /\ ~InSource(m) /\ FieldKey(m.sf) \in DOMAIN Overlay
       /\ Overlay[FieldKey(m.sf)] # <<>> /\ m.sf.def # <<>>
       /\ PostVal(m) = ValueOf(m.sf.type, Overlay[FieldKey(m.sf)])
       /\ PostVal(m) # ValueOf(m.sf.type, m.sf.def)
       /\ ~InSource(n) /\ FieldKey(n.sf) \notin DOMAIN Overlay
       /\ IsZero(PreVal(n), n.sf.type) /\ n.sf.def # <<>>
       /\ PostVal(n) = ValueOf(n.sf.type, n.sf.def)

\* the positions of the factories that make a parser for t
Makers(t) ==
  {i \in 1..Len(parserFactories) : Factory(parserFactories[i], t) # NilParser}

\* C10: parseWithRegistry answers with the explicit parser registered for
\* exactly the type when there is one, and has then called no factory at
\* all; else it answers with the parser of the first factory, in
\* registration order, that makes one for the type, having called the
\* factories up to that one and none after it; else it answers with the
\* scalar parser, having called every factory.
C10_DispatchOrder ==
  res.op = "parseWithRegistry" =>
    /\ res.out =
         IF res.t \in DOMAIN customParsers
         THEN Run(Parser(customParsers[res.t]), res.raw)
         ELSE IF Makers(res.t) # {}
         THEN Run(Factory(parserFactories[Min(Makers(res.t))], res.t), res.raw)
         ELSE parseScalar(res.raw, Kind(res.t), getBits(res.t))
    /\ res.asked =
         IF res.t \in DOMAIN customParsers THEN <<>>
         ELSE IF Makers(res.t) # {}
         THEN SubSeq(parserFactories, 1, Min(Makers(res.t)))
         ELSE parserFactories

\* a type with an explicit parser and two factories that make a parser for
\* it: the explicit parser answered, no factory was called, and each
\* factory would have answered differently
C10_Witness ==
  /\ res.op = "parseWithRegistry"
  /\ res.t \in DOMAIN customParsers
  /\ Cardinality(Makers(res.t)) >= 2
  /\ res.out = Run(Parser(customParsers[res.t]), res.raw)
  /\ res.out.ok
  /\ res.asked = <<>>
  /\ \A i \in Makers(res.t) : Run(Factory(parserFactories[i], res.t), res.raw) # res.out

\* a step in which RegisterParser returns
RegisterParserStep == res'.op = "RegisterParser" /\ res' # res

\* C11: a RegisterParser call for type T makes the explicit table hold, for
\* T, the parser of this call (replacing an earlier one), and leaves the
\* entry of every other type, pointer-to-T included, and the factory list
\* as they were; the table is a map, with one parser per type.
C11_RegisterParserReplaces ==
  [][ RegisterParserStep =>
        /\ DOMAIN customParsers' = DOMAIN customParsers \cup {res'.t}
        /\ customParsers'[res'.t] = res'.fn
        /\ \A k \in DOMAIN customParsers' \ {res'.t} :
             k \in DOMAIN customParsers /\ customParsers'[k] = customParsers[k]
        /\ parserFactories' = parserFactories ]_vars

\* the parser init() registered for time.Time was replaced by the one of
\* the last call, the entry of *time.Time and the factories are untouched
C11_Witness ==
  /\ res.op = "RegisterParser" /\ res.t = "time.Time"
  /\ customParsers["time.Time"] = res.fn
  /\ res.fn # BuiltinParsers["time.Time"]
  /\ customParsers["*time.Time"] = BuiltinParsers["*time.Time"]
  /\ \E k \in DOMAIN customParsers \ DOMAIN BuiltinParsers : customParsers[k] # res.fn
  /\ Len(parserFactories) > 1

IsPrefix(s, t) == Len(s) <= Len(t) /\ SubSeq(t, 1, Len(s)) = s

\* C12: the factory list starts with the built-in text-decoding factory and
\* only grows at its end: a RegisterParserFactory call appends its factory
\* and leaves the explicit table alone, no step removes, replaces or
\* reorders a factory, and a parse of a type without an explicit parser is
\* answered by the first factory of the list that makes a parser for it.
C12_FactoriesAppendOnly ==
  [][ /\ parserFactories[1] = "text" /\ parserFactories'[1] = "text"
      /\ IsPrefix(parserFactories, parserFactories')
      /\ (res'.op = "RegisterParserFactory" /\ res' # res) =>
           /\ parserFactories' = Append(parserFactories, res'.fn)
           /\ customParsers' = customParsers
      /\ ( /\ res'.op = "parseWithRegistry"
           /\ res'.t \notin DOMAIN customParsers
           /\ Makers(res'.t) # {} ) =>
           res'.out = Run(Factory(parserFactories[Min(Makers(res'.t))], res'.t),
                          res'.raw) ]_vars

\* two factories were registered after the built-in one, two factories of
\* the list make a parser for the type parsed, and the earlier one answered
C12_Witness ==
  /\ res.op = "parseWithRegistry"
  /\ res.t \notin DOMAIN customParsers
  /\ Len(parserFactories) = 3
  /\ parserFactories[2] # parserFactories[3]
  /\ Cardinality(Makers(res.t)) = 2
  /\ res.out = Run(Factory(parserFactories[Min(Makers(res.t))], res.t), res.raw)
  /\ res.out # Run(Factory(parserFactories[Max(Makers(res.t))], res.t), res.raw)

\* the parse result of one element or scalar of type t
ParseOf(t, raw) == parseWithRegistry(Registry, raw, t, Kind(t), getBits(t))

\* the positions of the items of a raw list that do not parse
BadItems(t, raw) ==
  {k \in 1..Len(Items(raw)) : ~ParseOf(Elem(t), Items(raw)[k]).ok}

\* the error of the first thing that does not parse in raw
CauseOf(t, raw) ==
  IF IsPlainSlice(t) THEN ParseOf(Elem(t), Items(raw)[Min(BadItems(t, raw))]).cause
  ELSE ParseOf(t, raw).cause

\* the field's raw string is not empty and does not parse
ParseFails(l) == ~Kept(l) /\ RawOf(l) # <<>> /\ ~Parses(l.sf.type, RawOf(l))

\* what population gives a field that it processes without error
Populated(l) ==
  IF Kept(l) \/ RawOf(l) = <<>> THEN PreVal(l) ELSE ValueOf(l.sf.type, RawOf(l))

\* C13: when the raw string of a leaf field f that Load reaches does not
\* parse, Load returns the error "field <f's name>: <cause>" wrapping the
\* parser's error; every leaf before f in depth-first declaration order
\* holds what population gave it, and f and every field after f hold what
\* they held before the call and were not written.
C13_ParseFailureStops ==
  Loaded =>
    \A i \in FieldIdx :
      LET f == Fields[i] IN
      (IsLeaf(f) /\ ParseFails(f) /\ Reached(i)) =>
        /\ res.err = [kind |-> "field", at |-> f.sf.name,
                      cause |-> CauseOf(f.sf.type, RawOf(f))]
        /\ ErrorText(res.err) = <<"field ", f.sf.name, ": ", res.err.cause>>
        /\ \A j \in EarlierLeaves(i) : PostVal(Fields[j]) = Populated(Fields[j])
        /\ \A j \in i..Len(Fields) :
             ~Written(Fields[j]) /\ PostVal(Fields[j]) = PreVal(Fields[j])

\* a field that held a value failed to parse its source string and kept the
\* value; a field before it was given a new value, and a field after it,
\* which has a default and held nothing, still holds nothing
C13_Witness ==
  /\ Loaded
  /\ \E i, j, k \in FieldIdx :
       LET e == Fields[i]
           f == Fields[j]
           g == Fields[k]
       IN
       /\ i < j /\ j < k /\ IsLeaf(e) /\ IsLeaf(f) /\ IsLeaf(g)
       /\ ParseFails(f) /\ Reached(j)
       /\ res.err.kind = "field" /\ res.err.at = f.sf.name
       /\ Written(e) /\ PostVal(e) # PreVal(e)
       /\ ~InSource(g) /\ IsZero(PreVal(g), g.sf.type) /\ g.sf.def # <<>>
       /\ IsZero(PostVal(g), g.sf.type)

\* a leaf type with no explicit parser, no factory and no scalar kind
Unsupported(t) ==
  /\ t \notin DOMAIN customParsers
  /\ Makers(t) = {}
  /\ Kind(t) \notin {"string", "bool"} \cup IntKinds \cup FloatKinds
  /\ ~IsPlainSlice(t)

\* C14: Load on a schema with a settable leaf field of an unsupported type
\* that it reaches returns the unsupported-type error naming the field,
\* whether or not a source value or default exists for the field.
C14_UnsupportedTypeFails ==
  Loaded =>
    \A i \in FieldIdx :
      LET f == Fields[i] IN
      (IsLeaf(f) /\ Unsupported(f.sf.type) /\ Reached(i)) =>
        res.err = [kind |-> "field", at |-> f.sf.name,
                   cause |-> "unsupported scalar kind"]

(***************************************************************************)
(* A program that registers parsers and factories for the struct types of  *)
(* its configuration, and then loads, lists and prints it.                 *)
(***************************************************************************)
InitClassify ==
  /\ heap \in { ZeroHeap("Nested"), ZeroHeap("Typed"),
                << Obj("Nested", << <<>>, << <<>> >>, 2 >>),
                   Obj("Cache", << <<"a">>, 3 >>),
                   Obj("Inner", << 7 >>) >> }
  /\ env \in { <<>>, [ADDR |-> <<"1">>] }
  /\ customParsers = BuiltinParsers
  /\ parserFactories = <<"text">>
  /\ files = <<>>
  /\ res = NoRes

\* the most objects the heap holds before a Load by value copies one more
MaxHeap == 3

\* cfg, err := Load(Config{...}): the struct is passed and returned by value
LoadValueCall ==
  /\ Len(heap) <= MaxHeap
  /\ Returns("Load", Load(Registry, heap, [form |-> "value", addr |-> 1]), <<>>)
  /\ UNCHANGED <<env, customParsers, parserFactories, files>>

NextClassify ==
  \/ \E typ \in {"Cache", "*Cache"} : RegisterParser(typ, "reject")
  \/ RegisterParserFactory("facStruct")
  \/ LoadCall
  \/ LoadValueCall
  \/ \E c \in InspectArgs(heap) : SettingsCall(c)
  \/ \E c \in InspectArgs(heap) : PrettyStringCall(c)

SpecClassify == InitClassify /\ [][NextClassify]_vars

(***************************************************************************)
(* What the properties of the renderer speak of: the struct PrettyString   *)
(* was given, the document it returned, and the characters of a string.    *)
(***************************************************************************)
Printed == res.op = "PrettyString" /\ res.str.kind = "json"

\* the struct that was printed, its type and its fields
Shown == heap[res.arg.addr]

ShownIdx == 1..NumField(Shown.type)

ShownField(i) == StructFields(Shown.type)[i]

\* what the document holds for the i-th field of the struct
Rendering(i) == res.str.doc.v[SafeKey(ShownField(i))]

\* the indices of s where a character starts (A9 continues the é of C3)
CharStarts(s) == {i \in 1..Len(s) : s[i] # "A9"}

\* the number of characters of s
CharCount(s) == Cardinality(CharStarts(s))

\* the first n characters of s
FirstChars(s, n) ==
  IF CharCount(s) <= n THEN s
  ELSE SubSeq(s, 1, (CHOOSE i \in CharStarts(s) :
                       Cardinality({j \in CharStarts(s) : j < i}) = n) - 1)

\* s with its first three characters kept and every other character
\* replaced by one '*'; every character replaced if there are three or fewer
MaskedChars(s) ==
  IF CharCount(s) <= 3 THEN [i \in 1..CharCount(s) |-> "*"]
  ELSE FirstChars(s, 3) \o [i \in 1..(CharCount(s) - 3) |-> "*"]

IsString(x, s) == x.j = "string" /\ x.v = s

\* C15: mask keeps the length of its input, replaces every character of an
\* input of three characters or fewer by '*', and keeps the first three
\* characters of a longer one and replaces each other character by '*'
\* ("secret123" gives "sec" and six '*'); PrettyString renders every secret
\* string field, and every element of a secret list of strings, that way.
C15_MaskKeepsThreeCharacters ==
  /\ mask(<<"s", "e", "c", "r", "e", "t", "1", "2", "3">>)
       = <<"s", "e", "c", "*", "*", "*", "*", "*", "*">>
  /\ Printed =>
       \A i \in ShownIdx :
         LET sf == ShownField(i)
             fv == Shown.val[i] IN
         (sf.exported /\ sf.secret # "") =>
           /\ sf.type = "string" =>
                /\ IsString(Rendering(i), MaskedChars(fv))
                /\ CharCount(Rendering(i).v) = CharCount(fv)
           /\ sf.type = "[]string" =>
                /\ Rendering(i).j = "array"
                /\ Len(Rendering(i).v) = Len(fv.elems)
                /\ \A k \in 1..Len(fv.elems) :
                     IsString(Rendering(i).v[k], MaskedChars(fv.elems[k]))

\* C16: PrettyString renders every secret field whose type is neither string
\* nor a list of strings as the one marker "***", whatever the value holds:
\* the rendering shows no element count, no nested keys and no partial mask.
C16_OtherSecretsOpaque ==
  Printed =>
    \A i \in ShownIdx :
      LET sf == ShownField(i) IN
      (sf.exported /\ sf.secret # "" /\ sf.type \notin {"string", "[]string"}) =>
        IsString(Rendering(i), <<"*", "*", "*">>)

\* the mask token as a locator writes it: "***", percent-encoded
MaskToken == <<"%", "2", "A", "%", "2", "A", "%", "2", "A">>

\* the locator u written out, with pw in the place of its password
Locator(u, pw) ==
  (IF u.scheme # <<>> THEN u.scheme \o <<":">> ELSE <<>>)
  \o (IF u.scheme # <<>> \/ u.host # <<>> \/ u.user.set THEN <<"/", "/">> ELSE <<>>)
  \o (IF u.user.set
      THEN u.user.name \o (IF u.user.pwset THEN <<":">> \o pw ELSE <<>>) \o <<"@">>
      ELSE <<>>)
  \o u.host \o u.path
  \o (IF u.query # <<>> THEN <<"?">> \o u.query ELSE <<>>)

\* s occurs in r
Contains(r, s) == \E i \in 1..(Len(r) - Len(s) + 1) : SubSeq(r, i, i + Len(s) - 1) = s

\* x renders the locator u with nothing but its password masked
MaskedLocator(x, u) ==
  /\ IsString(x, Locator(u, MaskToken))
  /\ (u.user.pwset /\ u.user.pw # <<>>) => ~Contains(x.v, u.user.pw)
  /\ ~(u.user.set /\ u.user.pwset) => x.v = Locator(u, u.user.pw)

\* the locators of the i-th field of the printed struct, each with the
\* value the document holds for it
LocatorsOf(i) ==
  LET t == ShownField(i).type
      fv == Shown.val[i] IN
  CASE t = "url.URL" -> { <<Rendering(i), fv>> }
    [] t = "*url.URL" ->
         IF fv = 0 THEN {} ELSE { <<Rendering(i), heap[fv].val>> }
    [] t = "[]url.URL" ->
         { <<Rendering(i).v[k], fv.elems[k]>> : k \in 1..Len(fv.elems) }
    [] t = "[]*url.URL" ->
         { <<Rendering(i).v[k], heap[fv.elems[k]].val>> :
             k \in {n \in 1..Len(fv.elems) : fv.elems[n] # 0} }
    [] OTHER -> {}

\* C17: a field of type url.URL or *url.URL that is not secret, and every such
\* element of a list that is not secret, is rendered as the locator's string
\* with the mask token in the place of the password and scheme, user name,
\* host, path and query as they are; a locator without a password is
\* rendered unchanged, and the password itself does not occur in the output.
C17_OnlyPasswordMasked ==
  Printed =>
    \A i \in ShownIdx :
      (ShownField(i).exported /\ ShownField(i).secret = "") =>
        /\ Kind(ShownField(i).type) = "slice" /\ isURLType(Elem(ShownField(i).type))
             => /\ Rendering(i).j = "array"
                /\ Len(Rendering(i).v) = Len(Shown.val[i].elems)
        /\ \A xu \in LocatorsOf(i) : MaskedLocator(xu[1], xu[2])

\* locators were printed: one with a password held by value and again as an
\* element of a list, and one without a user behind a pointer
C17_Witness ==
  /\ Printed
  /\ Shown.type = "Links"
  /\ \A i \in {1, 3} :
       \E xu \in LocatorsOf(i) :
         /\ xu[2].user.pwset /\ xu[2].user.pw # <<>>
         /\ Contains(xu[1].v, MaskToken)
  /\ \E xu \in LocatorsOf(2) :
       ~xu[2].user.set /\ xu[2].query # <<>> /\ xu[1].v = URLString(xu[2])

\* the argument of the last PrettyString was a struct or a pointer to one
StructGiven == res.arg.form \in {"ptr", "value"} /\ res.arg.addr # 0

\* C18: PrettyString returns a string for every input and never panics: a
\* JSON document for a struct or a pointer to a struct, whatever it holds,
\* and a message that describes the problem for nil, a nil pointer and a
\* value that is not a struct; a nil pointer to a struct inside the struct
\* is rendered as null under its key, not left out.
C18_PrettyStringNeverFails ==
  res.op = "PrettyString" =>
    /\ res.str.kind \in {"json", "text"}
    /\ StructGiven => res.str.kind = "json"
    /\ ~StructGiven =>
         /\ res.str.kind = "text"
         /\ Len(res.str.doc) = 2 /\ res.str.doc[2] = " is not a struct"
    /\ Printed =>
         \A i \in ShownIdx :
           LET sf == ShownField(i) IN
           (/\ sf.exported /\ sf.secret = ""
            /\ Kind(sf.type) = "ptr" /\ Kind(Elem(sf.type)) = "struct"
            /\ Shown.val[i] = 0) =>
             /\ SafeKey(sf) \in DOMAIN res.str.doc.v
             /\ Rendering(i).j = "null"

\* the file at the n-th overlay path of the last call (empty if unreadable)
OverlayAt(n) ==
  IF res.paths[n] \in DOMAIN files THEN files[res.paths[n]] ELSE <<>>

\* C19: LoadWithDotenv loads every overlay path it is given, in argument
\* order: a key that the environment does not hold and that only the second
\* overlay file defines is resolved from that file.
C19_EveryOverlayLoaded ==
  (res.op = "LoadWithDotenv" /\ Len(res.paths) = 2) =>
    \A i \in FieldIdx :
      LET l == Fields[i]
          k == FieldKey(l.sf) IN
      (/\ IsLeaf(l)
       /\ k \notin DOMAIN res.envPre
       /\ k \notin DOMAIN OverlayAt(1)
       /\ k \in DOMAIN OverlayAt(2)) =>
        /\ k \in DOMAIN env /\ env[k] = OverlayAt(2)[k]
        /\ PostVal(l) = ValueOf(l.sf.type, OverlayAt(2)[k])

\* the type a field of type t is recursed into by a walk, "" for a leaf
Nested(t) ==
  IF Kind(t) = "struct" /\ ~isCustomParsedType(Registry, t) THEN t
  ELSE IF /\ Kind(t) = "ptr" /\ Kind(Elem(t)) = "struct"
          /\ ~isCustomParsedType(Registry, Elem(t)) THEN Elem(t)
  ELSE ""

\* the dotted paths of the leaves of type t down to n levels, below prefix
RECURSIVE LeafPaths(_, _, _)
LeafPaths(t, prefix, n) ==
  IF n = 0 THEN {}
  ELSE UNION { LET sf == StructFields(t)[i]
                   p == IF prefix = <<>> THEN <<sf.name>>
                        ELSE prefix \o <<".", sf.name>> IN
               IF ~sf.exported THEN {}
               ELSE IF Nested(sf.type) = "" THEN {p}
               ELSE LeafPaths(Nested(sf.type), p, n - 1) :
               i \in 1..NumField(t) }

\* the paths Settings reported
ReportedPaths == { res.settings.list[i].Path : i \in 1..Len(res.settings.list) }

\* C20: Settings works on an unpopulated schema and changes nothing: it
\* returns the settings of every leaf, those below a nil pointer to a struct
\* included, each with the dotted path Parent.Child; the pointer stays nil
\* and every field of the argument is as it was; for an argument that is
\* not a struct it returns nil.
C20_SettingsReadOnly ==
  res.op = "Settings" =>
    /\ heap = res.pre
    /\ StructGiven =>
         /\ res.settings.kind = "settings"
         /\ LeafPaths(Shown.type, <<>>, 3) \subseteq ReportedPaths
    /\ ~StructGiven => res.settings.kind = "settings" /\ res.settings.list = <<>>

\* the fields of the struct given to the last call that are structs or
\* pointers to structs
Aggregates ==
  { i \in ShownIdx :
      /\ ShownField(i).exported
      /\ \/ Kind(ShownField(i).type) = "struct"
         \/ Kind(ShownField(i).type) = "ptr"
            /\ Kind(Elem(ShownField(i).type)) = "struct" }

\* Load, run on the struct in the present registry, takes its i-th field
\* as a leaf
LoadLeaf(i) ==
  \E k \in 1..Len(FieldSeq(Registry, heap, res.arg.addr, <<>>, Shown.type)) :
    LET f == FieldSeq(Registry, heap, res.arg.addr, <<>>, Shown.type)[k] IN
    f.a = res.arg.addr /\ f.p = <<i>> /\ f.role = "leaf"

\* Load, run on the struct in the present registry, leaves its i-th field,
\* a nil pointer, nil
LoadKeepsNil(i) ==
  Load(Registry, heap, [form |-> "ptr", addr |-> res.arg.addr])
    .walk.heap[res.arg.addr].val[i] = 0

\* the settings reported for the i-th field itself
OwnSettings(i) ==
  { k \in 1..Len(res.settings.list) :
      res.settings.list[k].Path = <<ShownField(i).name>> }

\* the settings reported for fields below the i-th field
InnerSettings(i) ==
  { k \in 1..Len(res.settings.list) :
      /\ Len(res.settings.list[k].Path) > 1
      /\ res.settings.list[k].Path[1] = ShownField(i).name }

\* C21: Settings and Load classify every field alike, whatever is registered
\* for its type or for the pointer to it: a struct or pointer-to-struct
\* field that Load takes as a leaf gets exactly one setting of its own and
\* none below it, and a field that Load recurses into gets none of its own.
C21_SameClassification ==
  (res.op = "Settings" /\ StructGiven /\ res.settings.kind = "settings") =>
    \A i \in Aggregates :
      /\ LoadLeaf(i) <=> Cardinality(OwnSettings(i)) = 1
      /\ LoadLeaf(i) => InnerSettings(i) = {}
      /\ ~LoadLeaf(i) => OwnSettings(i) = {}
      /\ (Kind(ShownField(i).type) = "ptr" /\ Shown.val[i] = 0) =>
           (LoadLeaf(i) <=> LoadKeepsNil(i))

\* C22: Load, Settings and PrettyString terminate on every schema, those
\* whose struct type refers to itself through a pointer field included:
\* no call ends with the goroutine stack exhausted.
C22_CallsTerminate ==
  /\ res.op = "Load" => res.err.kind # "overflow"
  /\ res.op = "Settings" => res.settings.kind # "overflow"
  /\ res.op = "PrettyString" => res.str.kind # "overflow"

\* the dispatcher resolves type t through an explicit parser or through a
\* registered factory, and does not fall through to the scalar fallback
Dispatched(t) ==
  t \in DOMAIN customParsers \/ FirstFactory(parserFactories, t, 1).parser # NilParser

IsAggregate(t) ==
  Kind(t) = "struct" \/ (Kind(t) = "ptr" /\ Kind(Elem(t)) = "struct")

\* C23: Load takes a struct or pointer-to-struct field as a leaf exactly
\* when the dispatcher resolves the field's type through an explicit parser
\* or through any registered factory, and recurses into it (allocating a
\* nil pointer) only when dispatch falls through to the scalar fallback.
C23_LeafIffDispatched ==
  (res.op = "Load" /\ res.ret # 0) =>
    \A k \in FieldIdx :
      IsAggregate(Fields[k].sf.type) =>
        /\ IsLeaf(Fields[k]) <=> Dispatched(Fields[k].sf.type)
        /\ (Succeeded /\ Kind(Fields[k].sf.type) = "ptr"
                      /\ ~Dispatched(Fields[k].sf.type)) =>
             PostVal(Fields[k]) # 0
        /\ (Kind(Fields[k].sf.type) = "struct"
              /\ Dispatched(Fields[k].sf.type)) =>
             \A j \in 1..Len(res.log) :
               ~(res.log[j].a = Fields[k].a
                 /\ Len(res.log[j].p) > Len(Fields[k].p)
                 /\ SubSeq(res.log[j].p, 1, Len(Fields[k].p)) = Fields[k].p)

\* C24: PrettyString renders a non-secret struct or pointer-to-struct field
\* as a nested tree of its fields only when Load would recurse into the
\* field; a field that Load takes as a leaf (a timestamp, a type with a
\* registered parser) is rendered as its direct value.
C24_TreeOnlyWhereLoadRecurses ==
  (Printed /\ StructGiven) =>
    \A i \in Aggregates :
      (ShownField(i).secret = "" /\ LoadLeaf(i)) =>
        Rendering(i).j # "object"

\* C25: Load is idempotent while the environment does not change: a Load
\* of the configuration a successful Load returned succeeds as well and
\* leaves every field, at every depth, as the first Load left it (source
\* values are re-read to the same value, defaults are kept, allocated
\* pointers keep their structs).
C25_LoadIdempotent ==
  [][ (res.op = "Load" /\ res.err = NoErr /\ res'.op = "Load"
         /\ env' = env /\ res'.envPre = res.envPre) =>
        (res'.err = NoErr /\ res'.ret = res.ret /\ heap' = heap) ]_vars

\* a second successful Load that found values in the source, defaults and
\* a list to read, and a pointer the first Load had allocated
C25_Witness ==
  /\ Succeeded /\ res.op = "Load" /\ res.pre = heap
  /\ \E k \in LeafIdx : InSource(Leaves[k]) /\ Written(Leaves[k])
  /\ \E k \in LeafIdx : ~InSource(Leaves[k]) /\ ~IsZero(PostVal(Leaves[k]), Leaves[k].sf.type)

\* C26: a sequence field is written atomically: when an element of its
\* comma-separated raw string does not parse, Load returns the error for
\* the field, and the field holds exactly the value it held before the
\* call and was not written; no prefix of parsed elements is stored.
C26_ListWrittenAtomically ==
  Loaded =>
    \A i \in FieldIdx :
      LET f == Fields[i] IN
      ( /\ IsLeaf(f) /\ IsPlainSlice(f.sf.type) /\ ~Kept(f)
        /\ RawOf(f) # <<>> /\ BadItems(f.sf.type, RawOf(f)) # {}
        /\ Reached(i) ) =>
        /\ res.err.kind = "field" /\ res.err.at = f.sf.name
        /\ ~Written(f)
        /\ PostVal(f) = PreVal(f)

\* the second element of a list did not parse after the first one did; the
\* field held an empty list, not nil, before the call and holds it still
C26_Witness ==
  /\ Loaded
  /\ \E i \in FieldIdx :
       LET f == Fields[i] IN
       /\ IsLeaf(f) /\ IsPlainSlice(f.sf.type) /\ InSource(f) /\ Reached(i)
       /\ Min(BadItems(f.sf.type, RawOf(f)) \cup {9}) = 2
       /\ res.err.kind = "field" /\ res.err.at = f.sf.name
       /\ ~PreVal(f).isnil
       /\ PostVal(f) = PreVal(f)

\* the keys the last LoadWithDotenv call added to the environment
AddedKeys == DOMAIN Overlay \ DOMAIN res.envPre

\* C27: Load never changes the process environment.  LoadWithDotenv changes
\* it only by adding keys it did not hold: every key it held keeps its
\* value, and every key of the overlay file is held once the call has
\* returned.  The added keys persist: a plain Load that follows resolves
\* the fields of those keys from the overlay values, ahead of the defaults.
C27_OverlayOnlyAdds ==
  [][ /\ res'.op = "Load" => env' = env
      /\ res'.op = "LoadWithDotenv" =>
           /\ \A k \in DOMAIN env : k \in DOMAIN env' /\ env'[k] = env[k]
           /\ \A k \in DOMAIN env' \ DOMAIN env :
                k \in DOMAIN Overlay' /\ env'[k] = Overlay'[k]
           /\ DOMAIN Overlay' \subseteq DOMAIN env'
      /\ (res.op = "LoadWithDotenv" /\ res'.op = "Load" /\ res'.err = NoErr) =>
           \A i \in 1..Len(Leaves') :
             LET l == Leaves'[i]
                 k == FieldKey(l.sf) IN
             (k \in AddedKeys /\ Overlay[k] # <<>>) =>
               /\ env'[k] = Overlay[k]
               /\ FieldValue(heap', l.a, l.p) = ValueOf(l.sf.type, Overlay[k])
    ]_vars

\* a plain Load after a LoadWithDotenv gave a field that has a default the
\* value of a key that only the overlay file had defined (no environment
\* the runs start from holds that value), and a key the environment held
\* before with another value than the file's is unchanged
C27_Witness ==
  /\ res.op = "Load" /\ res.err = NoErr
  /\ ".env" \in DOMAIN files
  /\ \E i \in LeafIdx :
       LET l == Leaves[i]
           k == FieldKey(l.sf) IN
       /\ k \in DOMAIN files[".env"] /\ k \in DOMAIN env
       /\ env[k] = files[".env"][k]
       /\ \A e \in SmallEnvironments("Basic") : k \in DOMAIN e => e[k] # env[k]
       /\ l.sf.def # <<>> /\ l.sf.def # env[k]
       /\ PostVal(l) = ValueOf(l.sf.type, env[k])
       /\ PostVal(l) # ValueOf(l.sf.type, l.sf.def)
  /\ \E k \in DOMAIN files[".env"] \cap DOMAIN env : env[k] # files[".env"][k]

\* two secret values of type t that show the same: strings of equal length
\* with the same first three characters, sequences of equal element count
\* (of such strings, if of strings), and any two values of another type
AlikeSecret(v, w, t) ==
  IF Kind(t) = "string"
  THEN CharCount(v) = CharCount(w) /\ FirstChars(v, 3) = FirstChars(w, 3)
  ELSE IF Kind(t) = "slice"
  THEN /\ v.isnil = w.isnil /\ Len(v.elems) = Len(w.elems)
       /\ Kind(Elem(t)) = "string" =>
            \A k \in 1..Len(v.elems) :
              /\ CharCount(v.elems[k]) = CharCount(w.elems[k])
              /\ FirstChars(v.elems[k], 3) = FirstChars(w.elems[k], 3)
  ELSE TRUE

\* two values of type t that differ only in secret-tagged fields, at any
\* depth, and there only between values that show the same
RECURSIVE Alike(_, _, _)
Alike(v, w, t) ==
  IF Kind(t) = "struct" /\ t \notin OpaqueStructs
  THEN \A i \in 1..NumField(t) :
         IF StructFields(t)[i].secret # ""
         THEN AlikeSecret(v[i], w[i], StructFields(t)[i].type)
         ELSE Alike(v[i], w[i], StructFields(t)[i].type)
  ELSE IF Kind(t) = "slice" /\ Kind(Elem(t)) = "struct"
          /\ Elem(t) \notin OpaqueStructs
  THEN /\ v.isnil = w.isnil /\ Len(v.elems) = Len(w.elems)
       /\ \A k \in 1..Len(v.elems) : Alike(v.elems[k], w.elems[k], Elem(t))
  ELSE v = w

\* two heaps of structures of the same schema that differ only so
AlikeHeaps(h, g) ==
  /\ Len(h) = Len(g)
  /\ \A a \in 1..Len(h) : h[a].type = g[a].type
  /\ \A a \in 1..Len(h) : Alike(h[a].val, g[a].val, h[a].type)

\* C28: the output of PrettyString does not depend on hidden secret
\* content: for a structure of the same schema that differs from the one
\* printed only in secret-tagged fields, with secret strings of equal length
\* and equal first three characters and secret sequences of equal element
\* count, PrettyString returns the same output; this holds for secret
\* fields at every depth, those of structs that are elements of a
\* non-secret sequence included.
C28_SecretsDoNotShow ==
  Printed =>
    \A g \in InspectFixtures :
      AlikeHeaps(heap, g) => PrettyString(g, res.arg) = res.str

\* C29: within one Load call the registry reads made for a field (the
\* classification, the parser selection, and the lookup that chooses
\* between assignment with and without conversion) observe the same
\* registry contents, also when RegisterParser or RegisterParserFactory
\* run concurrently; so a value that the scalar or factory path produced
\* is never assigned through the explicit-parser path.  A Load that the
\* runtime ends because of the concurrent access did not do so either.
C29_ReadsSeeOneRegistry ==
  /\ \A j, k \in 1..Len(res.seen) : res.seen[j] = res.seen[k]
  /\ res.err.kind # "fatal"
  /\ (res.pc = "classify" /\ Len(res.seen) >= 2) =>
       LET parse == res.seen[Len(res.seen) - 1]
           assign == res.seen[Len(res.seen)] IN
       res.t \in DOMAIN assign.parsers => res.t \in DOMAIN parse.parsers

\* the last Load was given its struct by value: it returned a copy
ByValue == res.op = "Load" /\ res.ret > Len(res.pre)

\* C30: a Load that is given a struct by value changes nothing that can be
\* reached from the caller's value, the structs behind its pre-allocated
\* nested pointers included; only the returned copy is populated.  A Load
\* that is given a pointer populates the struct in place and returns the
\* same pointer.
C30_ByValueLeavesOriginal ==
  res.op = "Load" =>
    /\ ByValue =>
         /\ \A a \in 1..Len(res.pre) : heap[a] = res.pre[a]
         /\ \A j \in 1..Len(res.log) : res.log[j].a > Len(res.pre)
    /\ ~ByValue =>
         /\ res.ret = 1
         /\ \A a \in 1..Len(res.pre) : heap[a].type = res.pre[a].type
====
